---- MODULE Spec2Model ----
(***************************************************************************)
(* A model of the moltis gateway core.                                     *)
(*                                                                         *)
(*   Part 1  the agent loop driver, crates/agents/src/runner.rs            *)
(*           (run_agent_loop), one action per stretch of code between two  *)
(*           suspension points of the future.                              *)
(*   Part 2  the streaming provider adapter, crates/agents/src/providers/  *)
(*           openai.rs (stream_with_tools) with the SSE line decoder.      *)
(*   Part 3  the request bodies of the same adapter (complete, stream,     *)
(*           stream_with_tools, serialize_messages_for_request).           *)
(*   Part 4  the sandbox router, crates/tools/src/sandbox.rs               *)
(*           (SandboxRouter).                                              *)
(*   Part 5  the sandbox backends of the same file (select_backend,        *)
(*           cleanup, exec) and SandboxRouter::cleanup_session.            *)
(*   Part 6  the share store, crates/gateway/src/share_store.rs            *)
(*           (ShareStore over the SQLite table session_shares).            *)
(*   Part 7  the device flow, crates/oauth/src/device_flow.rs              *)
(*           (poll_for_token).                                             *)
(*   Part 8  the local LLM setup, crates/gateway/src/local_llm_setup.rs    *)
(*           (LiveLocalLlmService::configure and its download task).       *)
(***************************************************************************)
EXTENDS Integers, Sequences, FiniteSets, TLC

VARIABLES
    script,     \* the provider of a run: its answers, by call number
    run,        \* the locals of one run_agent_loop future
    shadow,     \* a second run, on_event = None, against the same provider
    server,     \* the chat-completions endpoint: the response body it is sending
    sse,        \* the locals of one stream_with_tools stream, and what it yielded
    req,        \* one OpenAiProvider, the arguments of one call and the body it posts
    router,     \* one SandboxRouter, the calls made on it and what the last one returned
    backend,    \* the host, the router's backend, its containers and its calls in flight
    store,      \* one ShareStore: the rows of session_shares and the calls in flight
    oauth,      \* one poll_for_token future and the token endpoint it polls
    llm         \* one LiveLocalLlmService, its configure call and its download tasks

loopVars == <<script, run, shadow>>

sseVars == <<server, sse>>

vars == <<script, run, shadow, server, sse, req, router, backend, store, oauth, llm>>

\* What the agent loop, the stream, the request builder and the router each leave alone.
notLoop == <<server, sse, req, router, backend, store, oauth, llm>>

notSse == <<script, run, shadow, req, router, backend, store, oauth, llm>>

notReq == <<script, run, shadow, server, sse, router, backend, store, oauth, llm>>

notRouter == <<script, run, shadow, server, sse, req, backend, store, oauth, llm>>

\* What a call on the backend leaves alone, the router aside.
notBackend == <<script, run, shadow, server, sse, req, store, oauth, llm>>

\* What a call on the share store leaves alone.
notStore == <<script, run, shadow, server, sse, req, router, backend, oauth, llm>>

\* What the device flow leaves alone.
notOauth == <<script, run, shadow, server, sse, req, router, backend, store, llm>>

\* What the local LLM service leaves alone.
notLlm == <<script, run, shadow, server, sse, req, router, backend, store, oauth>>

\* No stream is open (the agent loop is looked at alone).
SseIdle ==
    /\ server = [pending |-> <<>>, lines |-> <<>>]
    /\ sse = [pc |-> "idle"]

\* No request is being built.
ReqIdle == req = [pc |-> "idle"]

\* No router is built.
RouterIdle == router = [pc |-> "idle"]

\* No backend is chosen.
BackendIdle == backend = [pc |-> "idle"]

\* No share store is open.
StoreIdle == store = [pc |-> "idle"]

\* No device flow is running.
OauthIdle == oauth = [pc |-> "idle"]

\* No local LLM service is constructed.
LlmIdle == llm = [pc |-> "idle"]

\* The agent loop is looked at alone.
LoopOnly == SseIdle /\ ReqIdle /\ RouterIdle /\ BackendIdle /\ StoreIdle /\ OauthIdle /\ LlmIdle

(***************************************************************************)
(* Part 1.  run_agent_loop                                                 *)
(***************************************************************************)

\* runner.rs:10
MAX_ITERATIONS == 25

\* The most tool calls one response of the provider carries.
MaxCalls == 2

\* Option<T>: None is <<>>, Some(v) is <<v>>.
None == <<>>

Some(v) == <<v>>

\* Option<String>::unwrap_or_default
UnwrapOrDefault(o) == IF o = None THEN "" ELSE o[1]

\* serde_json::Value::to_string: the JSON text of a value.
JsonToString(v) == [json_text |-> v]

(* The tool registry of a run: EchoTool of the tests, which returns its     *)
(* parameters, and a tool whose execute returns an error.                  *)
RegisteredTools == {"echo_tool", "fail_tool"}

\* tools.get(name)
ToolsGet(name) == name \in RegisteredTools

\* tool.execute(arguments)
Execute(name, arguments) ==
    IF name = "echo_tool"
    THEN [ok |-> TRUE, val |-> arguments]
    ELSE [ok |-> FALSE, err |-> "tool failed"]

(* The tool-call requests a provider may emit: a registered tool that       *)
(* succeeds, a registered tool that fails, and a name the registry does    *)
(* not hold, which reuses the id of the first.                             *)
ToolCallSet ==
    { [id |-> "call_1", name |-> "echo_tool", arguments |-> [text |-> "hi"]],
      [id |-> "call_2", name |-> "fail_tool", arguments |-> [text |-> "hi"]],
      [id |-> "call_1", name |-> "nope", arguments |-> [text |-> "hi"]] }

SeqsUpTo(S, n) == UNION { [1..k -> S] : k \in 0..n }

TextSet == {None, Some("Done!")}

\* CompletionResponse { text, tool_calls } (usage is only logged)
Responses ==
    { [text |-> t, tool_calls |-> tcs] : t \in TextSet, tcs \in SeqsUpTo(ToolCallSet, MaxCalls) }

ToolResponses == { r \in Responses : r.tool_calls # <<>> }

\* What provider.complete returns: Ok(response) or Err(e).
ProviderOk(r) == [ok |-> TRUE, resp |-> r]

ProviderErr == [ok |-> FALSE, err |-> "provider error"]

ProviderResults == { ProviderOk(r) : r \in Responses } \cup {ProviderErr}

\* The answers that end a run or ask for a single tool.
ShortResults ==
    { a \in ProviderResults : a.ok => Len(a.resp.tool_calls) <= 1 }

(* A provider in the shape of the test mocks (ToolCallingProvider): one     *)
(* answer for every call, or a first answer that asks for tools and        *)
(* another answer, which ends the run or asks for one tool, for every      *)
(* later call.                                                             *)
Scripts ==
    { <<a>> : a \in ProviderResults }
        \cup { <<ProviderOk(h), a>> : h \in ToolResponses, a \in ShortResults }

\* The answer to the n-th provider.complete call of a run.
ProviderAnswer(sc, n) == IF n < Len(sc) THEN sc[n] ELSE sc[Len(sc)]

NoResponse == [text |-> None, tool_calls |-> <<>>]

Running == [status |-> "running"]

\* Ok(AgentRunResult { text, iterations, tool_calls_made })
OkResult(text, iterations, total) ==
    [status |-> "ok", text |-> text, iterations |-> iterations, tool_calls_made |-> total]

\* Err(e)
ErrResult(e) == [status |-> "err", error |-> e]

\* runner.rs:46-58: the state of the future before its first loop pass.
InitRun(sink) ==
    [ pc |-> "loop",
      on_event |-> sink,
      messages |-> << [role |-> "system", content |-> "You are a test bot."],
                      [role |-> "user", content |-> "Hi"] >>,
      iterations |-> 0,
      total_tool_calls |-> 0,
      response |-> NoResponse,
      tc |-> 0,
      events |-> <<>>,
      complete_calls |-> 0,
      executing |-> <<>>,
      executed |-> <<>>,
      result |-> Running ]

\* if let Some(cb) = on_event { cb(event) }
Emit(s, evs) == IF s.on_event THEN s.events \o evs ELSE s.events

EvIteration(n) == [type |-> "Iteration", n |-> n]

EvThinking == [type |-> "Thinking"]

EvThinkingDone == [type |-> "ThinkingDone"]

EvToolCallStart(c) == [type |-> "ToolCallStart", id |-> c.id, name |-> c.name]

EvToolCallEnd(c, success) ==
    [type |-> "ToolCallEnd", id |-> c.id, name |-> c.name, success |-> success]

\* The limit test with one more pass allowed.
OverLimitOffByOne(n) == n > MAX_ITERATIONS + 1

\* runner.rs:62: if iterations > MAX_ITERATIONS
OverLimit(n) == n > MAX_ITERATIONS

\* Thinking emitted before Iteration.
LoopHeadEventsThinkingFirst(n) == <<EvThinking, EvIteration(n)>>

\* runner.rs:67-76: the events of the loop head.
LoopHeadEvents(n) == <<EvIteration(n), EvThinking>>

\* runner.rs:60-78: the loop head, up to the call of provider.complete.
LoopHeadStep(s) ==
    IF OverLimit(s.iterations + 1)
    THEN [s EXCEPT !.iterations = s.iterations + 1,
                   !.pc = "failed",
                   !.result = ErrResult("agent loop exceeded max iterations")]
    ELSE [s EXCEPT !.iterations = s.iterations + 1,
                   !.events = Emit(s, LoopHeadEvents(s.iterations + 1)),
                   !.complete_calls = s.complete_calls + 1,
                   !.pc = "await_complete"]

\* runner.rs:122-135
ToolCallsJson(tool_calls) ==
    [ i \in 1..Len(tool_calls) |->
        [ id |-> tool_calls[i].id,
          type |-> "function",
          function |-> [ name |-> tool_calls[i].name,
                         arguments |-> JsonToString(tool_calls[i].arguments) ] ] ]

\* runner.rs:137-143
AssistantMsg(resp) ==
    IF resp.text = None
    THEN [role |-> "assistant", tool_calls |-> ToolCallsJson(resp.tool_calls)]
    ELSE [role |-> "assistant", tool_calls |-> ToolCallsJson(resp.tool_calls),
          content |-> resp.text[1]]

\* The provider's error answered by asking again, without end.
ProviderFailedRetry(s, e) == s

\* The provider's error taken for an empty turn: back to the loop head.
ProviderFailedSwallow(s, e) == [s EXCEPT !.pc = "loop"]

\* ThinkingDone is emitted before the error is returned.
ProviderFailedThinkingDone(s, e) ==
    [s EXCEPT !.events = Emit(s, <<EvThinkingDone>>), !.pc = "failed",
              !.result = ErrResult(e)]

\* runner.rs:78: provider.complete(..).await? on Err(e)
ProviderFailed(s, e) == [s EXCEPT !.pc = "failed", !.result = ErrResult(e)]

\* runner.rs:78-144: provider.complete has returned a.
CompleteStep(s, a) ==
    IF ~a.ok
    THEN ProviderFailed(s, a.err)
    ELSE IF a.resp.tool_calls = <<>>
    THEN [s EXCEPT !.events = Emit(s, <<EvThinkingDone>>),
                   !.pc = "returned",
                   !.result = OkResult(UnwrapOrDefault(a.resp.text), s.iterations,
                                       s.total_tool_calls)]
    ELSE [s EXCEPT !.events = Emit(s, <<EvThinkingDone>>),
                   !.messages = Append(s.messages, AssistantMsg(a.resp)),
                   !.response = a.resp,
                   !.tc = 1,
                   !.pc = "tool_call"]

\* ToolMsg with the tool's name where the call's id belongs.
ToolMsgByName(c, result) ==
    [role |-> "tool", tool_call_id |-> c.name, content |-> JsonToString(result)]

\* runner.rs:206-210
ToolMsg(c, result) ==
    [role |-> "tool", tool_call_id |-> c.id, content |-> JsonToString(result)]

\* runner.rs:147, 211-212: the next tool call of the response, or the loop head.
NextToolCall(s) ==
    IF s.tc < Len(s.response.tool_calls)
    THEN [s EXCEPT !.tc = s.tc + 1, !.pc = "tool_call"]
    ELSE [s EXCEPT !.tc = 0, !.response = NoResponse, !.pc = "loop"]

\* Only the calls of registered tools counted.
CountedKnownOnly(s, c) ==
    IF ToolsGet(c.name) THEN s.total_tool_calls + 1 ELSE s.total_tool_calls

\* A call counted only when an event sink is given.
CountedIfSink(s, c) ==
    IF s.on_event THEN s.total_tool_calls + 1 ELSE s.total_tool_calls

\* runner.rs:148: total_tool_calls += 1
Counted(s, c) == s.total_tool_calls + 1

\* tool.execute spawned, not awaited: on to the next call at once.
AwaitExecuteSpawned(s) == NextToolCall(s)

\* runner.rs:160: tool.execute(..).await, the future suspended on the tool.
AwaitExecute(s) == [s EXCEPT !.pc = "await_execute"]

\* runner.rs:147-160, 185-210: one pass of the for loop, up to tool.execute.
ToolCallStep(s) ==
    LET c == s.response.tool_calls[s.tc] IN
    IF ToolsGet(c.name)
    THEN AwaitExecute(
           [s EXCEPT !.total_tool_calls = Counted(s, c),
                     !.events = Emit(s, <<EvToolCallStart(c)>>),
                     !.executing = Append(s.executing, c),
                     !.executed = Append(s.executed, c)])
    ELSE NextToolCall(
           [s EXCEPT !.total_tool_calls = Counted(s, c),
                     !.events = Emit(s, <<EvToolCallStart(c), EvToolCallEnd(c, FALSE)>>),
                     !.messages = Append(s.messages,
                         ToolMsg(c, [error |-> <<"unknown tool: ", c.name>>]))])

\* The tool's error ends the run (tool.execute(..).await?).
ToolFailedAbort(s, c, e) ==
    [s EXCEPT !.executing = Tail(s.executing), !.pc = "failed", !.result = ErrResult(e)]

\* runner.rs:173-183, 197-210: execute returned Err(e).
ToolFailed(s, c, e) ==
    NextToolCall(
      [s EXCEPT !.events = Emit(s, <<EvToolCallEnd(c, FALSE)>>),
                !.executing = Tail(s.executing),
                !.messages = Append(s.messages, ToolMsg(c, [error |-> e]))])

\* runner.rs:161-172, 197-210: execute returned Ok(val).
ToolSucceeded(s, c, val) ==
    NextToolCall(
      [s EXCEPT !.events = Emit(s, <<EvToolCallEnd(c, TRUE)>>),
                !.executing = Tail(s.executing),
                !.messages = Append(s.messages, ToolMsg(c, [result |-> val]))])

\* runner.rs:160-184, 197-210: tool.execute has returned.
ExecuteStep(s) ==
    LET c == s.response.tool_calls[s.tc]
        r == Execute(c.name, c.arguments)
    IN IF r.ok THEN ToolSucceeded(s, c, r.val) ELSE ToolFailed(s, c, r.err)

\* The run, from one suspension point to the next.
Step(s, sc) ==
    CASE s.pc = "loop" -> LoopHeadStep(s)
      [] s.pc = "await_complete" -> CompleteStep(s, ProviderAnswer(sc, s.complete_calls))
      [] s.pc = "tool_call" -> ToolCallStep(s)
      [] s.pc = "await_execute" -> ExecuteStep(s)
      [] OTHER -> s

Terminated(s) == s.pc \in {"returned", "failed"}

InitLoop ==
    /\ script \in Scripts
    /\ run \in {InitRun(TRUE), InitRun(FALSE)}
    /\ shadow = InitRun(FALSE)
    /\ LoopOnly

LoopHead ==
    /\ run.pc = "loop"
    /\ run' = LoopHeadStep(run)
    /\ UNCHANGED <<script, shadow, notLoop>>

Complete ==
    /\ run.pc = "await_complete"
    /\ run' = CompleteStep(run, ProviderAnswer(script, run.complete_calls))
    /\ UNCHANGED <<script, shadow, notLoop>>

ToolCall ==
    /\ run.pc = "tool_call"
    /\ run' = ToolCallStep(run)
    /\ UNCHANGED <<script, shadow, notLoop>>

ExecuteReturns ==
    /\ run.pc = "await_execute"
    /\ run' = ExecuteStep(run)
    /\ UNCHANGED <<script, shadow, notLoop>>

NextLoop == LoopHead \/ Complete \/ ToolCall \/ ExecuteReturns

SpecLoop == InitLoop /\ [][NextLoop]_vars

(* The run under the premise that every provider.complete and every        *)
(* tool.execute call returns, with an executor that polls the future.      *)
SpecLoopFair == SpecLoop /\ WF_vars(NextLoop)

(* Two runs against the same provider and the same tools, one with an event *)
(* sink and one with on_event = None, taken together from suspension point *)
(* to suspension point.                                                    *)
InitPair ==
    /\ script \in Scripts
    /\ run = InitRun(TRUE)
    /\ shadow = InitRun(FALSE)
    /\ LoopOnly

PairStep ==
    /\ ~(Terminated(run) /\ Terminated(shadow))
    /\ run' = Step(run, script)
    /\ shadow' = Step(shadow, script)
    /\ UNCHANGED <<script, notLoop>>

SpecPair == InitPair /\ [][PairStep]_vars

(***************************************************************************)
(* Part 2.  stream_with_tools and the SSE line decoder                     *)
(*                                                                         *)
(* The framing is openai.rs:520-613.  process_openai_sse_line,             *)
(* finalize_stream and StreamingToolState live in providers/openai_compat, *)
(* which is not among the source files: they are written from spec.md 4.E  *)
(* and from what the tests of openai.rs:818-962 expect of them.            *)
(*                                                                         *)
(* A body is a sequence of bytes; a byte is written as a string.  "da" and *)
(* "ta: " are the two halves of the prefix "data: ", "C3" "A9" the two     *)
(* bytes of one two-byte character, and the text of a whole JSON chunk is  *)
(* one byte.  A string of the program is a sequence of characters.         *)
(***************************************************************************)

\* The most SSE lines the endpoint sends in one response body.
MaxLines == 3

Indexes == {0, 1}

\* One element of choices[0].delta.tool_calls.
Entry(i, id, name, arguments) ==
    [index |-> i, id |-> id, name |-> name, arguments |-> arguments]

\* A chat-completion chunk that carries nothing.
EmptyDoc == [content |-> None, tool_calls |-> <<>>, finish_reason |-> None, usage |-> None]

(* The JSON chunks of the tests at openai.rs:821-831 and 893-898, by their  *)
(* text: a call started with an empty argument fragment, a call started    *)
(* without one, a fragment for either index, the finish_reason chunk and   *)
(* the usage chunk.                                                        *)
JsonDocs ==
    [ t \in {"{tc:[0,call_1,tool_a,'']}", "{tc:[1,call_2,tool_b]}", "{tc:[0,'ab']}",
             "{tc:[1,'c']}", "{finish_reason:tool_calls}", "{usage:[50,20]}"} |->
        CASE t = "{tc:[0,call_1,tool_a,'']}" ->
               [EmptyDoc EXCEPT !.tool_calls =
                   <<Entry(0, Some("call_1"), Some("tool_a"), Some(<<>>))>>]
          [] t = "{tc:[1,call_2,tool_b]}" ->
               [EmptyDoc EXCEPT !.tool_calls =
                   <<Entry(1, Some("call_2"), Some("tool_b"), None)>>]
          [] t = "{tc:[0,'ab']}" ->
               [EmptyDoc EXCEPT !.tool_calls = <<Entry(0, None, None, Some(<<"a", "b">>))>>]
          [] t = "{tc:[1,'c']}" ->
               [EmptyDoc EXCEPT !.tool_calls = <<Entry(1, None, None, Some(<<"c">>))>>]
          [] t = "{finish_reason:tool_calls}" ->
               [EmptyDoc EXCEPT !.finish_reason = Some("tool_calls")]
          [] t = "{usage:[50,20]}" ->
               [EmptyDoc EXCEPT !.usage =
                   Some([prompt_tokens |-> 50, completion_tokens |-> 20, cached_tokens |-> 0])] ]

\* "data: <payload>\n"
DataLine(payload) == <<"da", "ta: ">> \o payload \o <<"\n">>

(* The lines an endpoint sends: the chunks above, a text delta of one       *)
(* two-byte character, "data: [DONE]\r\n", a data line that is not JSON,   *)
(* a comment line and an empty line.                                       *)
LineSet ==
    { DataLine(<<t>>) : t \in DOMAIN JsonDocs }
        \cup { DataLine(<<"{content:'", "C3", "A9", "'}">>),
               DataLine(<<"[DONE]", "\r">>),
               DataLine(<<"{oops">>),
               <<": ping", "\n">>,
               <<"\n">> }

RECURSIVE FromUtf8Lossy(_)
\* String::from_utf8_lossy: a byte that is no whole character becomes U+FFFD.
FromUtf8Lossy(bytes) ==
    IF bytes = <<>> THEN <<>>
    ELSE IF bytes[1] = "C3" /\ Len(bytes) >= 2 /\ bytes[2] = "A9"
    THEN <<"e-acute">> \o FromUtf8Lossy(SubSeq(bytes, 3, Len(bytes)))
    ELSE IF bytes[1] \in {"C3", "A9"}
    THEN <<"U+FFFD">> \o FromUtf8Lossy(Tail(bytes))
    ELSE <<bytes[1]>> \o FromUtf8Lossy(Tail(bytes))

Whitespace == {" ", "\r", "\n"}

RECURSIVE TrimStart(_)
TrimStart(str) ==
    IF str # <<>> /\ str[1] \in Whitespace THEN TrimStart(Tail(str)) ELSE str

RECURSIVE TrimEnd(_)
TrimEnd(str) ==
    IF str # <<>> /\ str[Len(str)] \in Whitespace
    THEN TrimEnd(SubSeq(str, 1, Len(str) - 1))
    ELSE str

\* str::trim
Trim(str) == TrimEnd(TrimStart(str))

\* line.strip_prefix("data: "): Some(rest) or None
StripPrefix(line) ==
    IF Len(line) >= 2 /\ line[1] = "da" /\ line[2] = "ta: "
    THEN Some(SubSeq(line, 3, Len(line)))
    ELSE None

\* buf.find('\n'): the place of the first line feed, 0 when there is none.
FindNewline(buf) ==
    IF \E i \in 1..Len(buf) : buf[i] = "\n"
    THEN CHOOSE i \in 1..Len(buf) : buf[i] = "\n" /\ \A j \in 1..(i - 1) : buf[j] # "\n"
    ELSE 0

\* serde_json::from_str of a data payload: Ok(chunk) or Err.
ParseJson(data) ==
    IF Len(data) = 1 /\ data[1] \in DOMAIN JsonDocs
    THEN [ok |-> TRUE, doc |-> JsonDocs[data[1]]]
    ELSE IF /\ Len(data) >= 2
            /\ data[1] = "{content:'"
            /\ data[Len(data)] = "'}"
            /\ \A i \in 2..(Len(data) - 1) : data[i] \in {"e-acute", "U+FFFD"}
    THEN [ok |-> TRUE,
          doc |-> [EmptyDoc EXCEPT !.content = Some(SubSeq(data, 2, Len(data) - 1))]]
    ELSE [ok |-> FALSE]

\* Usage::default()
NoUsage == [input_tokens |-> 0, output_tokens |-> 0, cache_read_tokens |-> 0]

\* StreamingToolState::default(): no tool call in reassembly, no usage.
NoToolState == [tool_calls |-> <<>>, usage |-> NoUsage]

SseDelta(text) == [type |-> "Delta", text |-> text]

SseToolCallStart(id, name, i) ==
    [type |-> "ToolCallStart", id |-> id, name |-> name, index |-> i]

SseArgumentsDelta(i, chunk) ==
    [type |-> "ToolCallArgumentsDelta", index |-> i, chunk |-> chunk]

SseToolCallComplete(i) == [type |-> "ToolCallComplete", index |-> i]

SseDone(usage) == [type |-> "Done", usage |-> usage]

SseError(message) == [type |-> "Error", message |-> message]

\* The index has a place in the reassembly state.
Started(st, i) == \E k \in 1..Len(st.tool_calls) : st.tool_calls[k].index = i

\* 4.E: an entry with id and function.name of an index not yet started.
StartEntry(e, acc) ==
    IF e.id # None /\ e.name # None /\ ~Started(acc.state, e.index)
    THEN [ state |-> [acc.state EXCEPT !.tool_calls =
                        Append(@, [index |-> e.index, id |-> e.id[1], name |-> e.name[1],
                                   arguments |-> <<>>, open |-> TRUE])],
           events |-> Append(acc.events, SseToolCallStart(e.id[1], e.name[1], e.index)) ]
    ELSE acc

\* 4.E: an entry with function.arguments.
ArgumentsEntry(e, acc) ==
    IF e.arguments # None
    THEN [ state |-> [acc.state EXCEPT !.tool_calls =
                        [ k \in 1..Len(@) |->
                            IF @[k].index = e.index
                            THEN [@[k] EXCEPT !.arguments = @ \o e.arguments[1]]
                            ELSE @[k] ]],
           events |-> Append(acc.events, SseArgumentsDelta(e.index, e.arguments[1])) ]
    ELSE acc

RECURSIVE ApplyEntries(_, _)
\* 4.E: the entries of delta.tool_calls, in order.
ApplyEntries(entries, acc) ==
    IF entries = <<>> THEN acc
    ELSE ApplyEntries(Tail(entries), ArgumentsEntry(entries[1], StartEntry(entries[1], acc)))

\* ToolCallComplete for every open tool call, in reassembly order.
CompleteOpen(st) ==
    LET IsOpen(c) == c.open
        open == SelectSeq(st.tool_calls, IsOpen)
    IN [ k \in 1..Len(open) |-> SseToolCallComplete(open[k].index) ]

\* The tool calls of the state, all closed.
CloseAll(st) ==
    [st EXCEPT !.tool_calls = [ k \in 1..Len(@) |-> [@[k] EXCEPT !.open = FALSE] ]]

\* 4.E: finish_reason = "tool_calls".
ApplyFinish(doc, acc) ==
    IF doc.finish_reason = Some("tool_calls")
    THEN [state |-> CloseAll(acc.state), events |-> acc.events \o CompleteOpen(acc.state)]
    ELSE acc

\* 4.E: the usage block is kept for Done, nothing is emitted.
ApplyUsage(doc, acc) ==
    IF doc.usage # None
    THEN [acc EXCEPT !.state.usage =
            [ input_tokens |-> doc.usage[1].prompt_tokens,
              output_tokens |-> doc.usage[1].completion_tokens,
              cache_read_tokens |-> doc.usage[1].cached_tokens ]]
    ELSE acc

\* 4.E: choices[0].delta.content.
ApplyContent(doc, acc) ==
    IF doc.content # None
    THEN [acc EXCEPT !.events = Append(@, SseDelta(doc.content[1]))]
    ELSE acc

\* process_openai_sse_line(data, &mut state): Done, Skip, or Events with the new state.
ProcessOpenAiSseLine(data, st) ==
    IF data = <<"[DONE]">> THEN [kind |-> "Done"]
    ELSE IF ~ParseJson(data).ok THEN [kind |-> "Skip"]
    ELSE LET doc == ParseJson(data).doc
             acc == ApplyUsage(doc,
                      ApplyFinish(doc,
                        ApplyEntries(doc.tool_calls,
                          ApplyContent(doc, [state |-> st, events |-> <<>>]))))
         IN [kind |-> "Events", events |-> acc.events, state |-> acc.state, doc |-> doc]

\* finalize_stream(&state): completions for the open tool calls, then Done(usage).
FinalizeStream(st) == Append(CompleteOpen(st), SseDone(st.usage))

\* The decoder goes on after [DONE].
StreamReturnMissing(s) == s

\* openai.rs:601: return, the stream ends.
StreamReturn(s) == [s EXCEPT !.pc = "closed"]

\* A line that is skipped ends the stream.
OnSkipReturn(s) == [s EXCEPT !.pc = "closed"]

\* openai.rs:608: SseLineResult::Skip => {}
OnSkip(s) == s

\* The next line loses its first character.
RestOfBufOffByOne(buf, pos) == SubSeq(buf, pos + 2, Len(buf))

\* openai.rs:586: buf = buf[pos + 1..]
RestOfBuf(buf, pos) == SubSeq(buf, pos + 1, Len(buf))

RECURSIVE DrainLines(_)
\* openai.rs:584-610: while let Some(pos) = buf.find('\n')
DrainLines(s) ==
    LET pos == FindNewline(s.buf) IN
    IF s.pc = "closed" \/ pos = 0 THEN s
    ELSE LET line == Trim(SubSeq(s.buf, 1, pos - 1))
             t == [s EXCEPT !.buf = RestOfBuf(s.buf, pos)]
         IN IF line = <<>> THEN DrainLines(t)
            ELSE IF StripPrefix(line) = None THEN DrainLines(t)
            ELSE LET r == ProcessOpenAiSseLine(StripPrefix(line)[1], t.state) IN
                 CASE r.kind = "Done" ->
                        DrainLines(StreamReturn(
                          [t EXCEPT !.out = t.out \o FinalizeStream(t.state)]))
                   [] r.kind = "Events" ->
                        DrainLines([t EXCEPT !.state = r.state,
                                             !.out = t.out \o r.events,
                                             !.seen = Append(t.seen, r.doc)])
                   [] OTHER -> DrainLines(OnSkip(t))

\* openai.rs:574-611: one chunk of the body has arrived.
OnChunk(s, chunk) == DrainLines([s EXCEPT !.buf = s.buf \o FromUtf8Lossy(chunk)])

\* openai.rs:525-553: the stream is polled for the first time, the request is built.
SseRequest == [pc |-> "request", buf |-> <<>>, state |-> NoToolState, out |-> <<>>,
               seen |-> <<>>]

\* The agent loop is not running (the stream is looked at alone).
LoopIdle ==
    /\ script = <<ProviderErr>>
    /\ run = InitRun(FALSE)
    /\ shadow = InitRun(FALSE)

\* The stream is looked at alone.
SseOnly == LoopIdle /\ ReqIdle /\ RouterIdle /\ BackendIdle /\ StoreIdle /\ OauthIdle /\ LlmIdle

InitSse ==
    /\ SseOnly
    /\ server = [pending |-> <<>>, lines |-> <<>>]
    /\ sse = SseRequest

\* The stream goes on after an Error.
ErrorReturnMissing(s) == s

\* openai.rs:560, 566, 579: return after yielding the Error.
ErrorReturn(s) == [s EXCEPT !.pc = "closed"]

\* openai.rs:564-567: send() fails.
SendFails ==
    /\ sse.pc = "request"
    /\ sse' = ErrorReturn([sse EXCEPT !.out = Append(@, SseError("send failed"))])
    /\ UNCHANGED <<server, notSse>>

\* openai.rs:556-561: the status is not 2xx.
HttpError ==
    /\ sse.pc = "request"
    /\ sse' = ErrorReturn([sse EXCEPT !.out = Append(@, SseError("HTTP 500: body"))])
    /\ UNCHANGED <<server, notSse>>

\* openai.rs:562, 570-572: a 2xx response, the body is about to stream.
ResponseOk ==
    /\ sse.pc = "request"
    /\ sse' = [sse EXCEPT !.pc = "streaming"]
    /\ UNCHANGED <<server, notSse>>

(* openai.rs:574-611: byte_stream.next() yields the next n bytes of the     *)
(* body: the rest of the line being sent and, when the endpoint begins a   *)
(* new line, bytes of that line.  server.lines are the lines begun so far, *)
(* server.pending the bytes of the last of them that are still to come.    *)
RecvChunk ==
    /\ sse.pc = "streaming"
    /\ \E new \in {<<>>} \cup (IF Len(server.lines) < MaxLines THEN LineSet ELSE {}) :
         LET body == server.pending \o new IN
         \E n \in 1..Len(body) :
            /\ new # <<>> => n > Len(server.pending)
            /\ server' = [pending |-> SubSeq(body, n + 1, Len(body)),
                          lines |-> IF new = <<>> THEN server.lines
                                    ELSE Append(server.lines, new)]
            /\ sse' = OnChunk(sse, SubSeq(body, 1, n))
    /\ UNCHANGED notSse

\* openai.rs:577-580: reading the body fails.
ChunkError ==
    /\ sse.pc = "streaming"
    /\ sse' = ErrorReturn([sse EXCEPT !.out = Append(@, SseError("read failed"))])
    /\ UNCHANGED <<server, notSse>>

\* openai.rs:574, 611-612: byte_stream.next() yields None, the stream ends.
BodyEnds ==
    /\ sse.pc = "streaming"
    /\ sse' = [sse EXCEPT !.pc = "closed"]
    /\ UNCHANGED <<server, notSse>>

NextSse == SendFails \/ HttpError \/ ResponseOk \/ RecvChunk \/ ChunkError \/ BodyEnds

SpecSse == InitSse /\ [][NextSse]_vars

(***************************************************************************)
(* Part 3.  The request bodies of OpenAiProvider                           *)
(*                                                                         *)
(* complete (openai.rs:445-509), stream (512-517), stream_with_tools       *)
(* (520-536) and serialize_messages_for_request (375-420) are in the       *)
(* source.  ChatMessage::to_openai_value (crate::model) and                *)
(* to_openai_tools (providers/openai_compat) are not: they follow spec.md  *)
(* 4.F "Request shaping" and 6 "Tool JSON envelope".                       *)
(*                                                                         *)
(* A JSON object is a function from its keys; a provider name is a         *)
(* sequence of characters, a base URL a sequence of pieces of text.        *)
(***************************************************************************)

\* The most messages of a history, and the most tools of a call.
MaxMessages == 2

MaxTools == 2

\* u8::to_ascii_lowercase, on the letters the names are written with.
ToAsciiLowercase(c) ==
    CASE c = "M" -> "m"
      [] c = "O" -> "o"
      [] OTHER -> c

\* str::eq_ignore_ascii_case
EqIgnoreAsciiCase(a, b) ==
    /\ Len(a) = Len(b)
    /\ \A k \in 1..Len(a) : ToAsciiLowercase(a[k]) = ToAsciiLowercase(b[k])

\* str::contains
Contains(str, pattern) ==
    \E k \in 0..(Len(str) - Len(pattern)) :
        SubSeq(str, k + 1, k + Len(pattern)) = pattern

Moonshot == <<"m", "o", "o", "n", "s", "h", "o", "t">>

\* The provider names and base URLs of the tests, and near misses of them.
ProviderNames ==
    { <<"o", "p", "e", "n", "a", "i">>, Moonshot,
      <<"M", "o", "o", "n", "s", "h", "o", "t">>,
      <<"m", "o", "o", "n", "s", "h", "o", "t", "2">> }

BaseUrls ==
    { <<"https://api.", "openai", ".", "com", "/v1">>,
      <<"https://api.", "moonshot", ".", "ai", "/v1">>,
      <<"https://api.", "moonshot", ".", "cn", "/v1">>,
      <<"https://", "moonshot", ".", "example", ".", "com">> }

Providers == [provider_name : ProviderNames, base_url : BaseUrls, model : {"kimi-k2.5"}]

\* openai.rs:369-373
RequiresReasoningContentOnToolMessages(p) ==
    \/ EqIgnoreAsciiCase(p.provider_name, Moonshot)
    \/ Contains(p.base_url, <<"moonshot", ".", "ai">>)
    \/ Contains(p.base_url, <<"moonshot", ".", "cn">>)

\* The ToolCall of the tests (openai.rs:683-687).
ExecCall == [id |-> "call_1", name |-> "exec", arguments |-> "{command:uname -a}"]

\* The messages of a history (openai.rs:745-753 and runner.rs:46-55).
ChatMessages ==
    { [role |-> "system", content |-> Some("You are a test bot."), tool_calls |-> <<>>,
       tool_call_id |-> None],
      [role |-> "user", content |-> Some("run uname"), tool_calls |-> <<>>,
       tool_call_id |-> None],
      [role |-> "assistant", content |-> None, tool_calls |-> <<ExecCall>>,
       tool_call_id |-> None],
      [role |-> "assistant", content |-> Some("On it."), tool_calls |-> <<ExecCall>>,
       tool_call_id |-> None],
      [role |-> "assistant", content |-> Some("Done!"), tool_calls |-> <<>>,
       tool_call_id |-> None],
      [role |-> "tool", content |-> Some("Linux host 6.0"), tool_calls |-> <<>>,
       tool_call_id |-> Some("call_1")] }

\* The schemas of the registry: two plain ones and one that is already in the envelope.
ToolSchemas ==
    { [name |-> "create_skill", description |-> "Create a new skill"],
      [name |-> "exec", description |-> "Run a command"],
      [type |-> "function", function |-> [name |-> "noop", description |-> "Nothing"]] }

\* The object with one more key, or with the key's value replaced.
JsonSet(value, key, v) ==
    [ k \in DOMAIN value \cup {key} |-> IF k = key THEN v ELSE value[k] ]

\* spec 6: a tool_calls entry is { id, type: "function", function: { name, arguments } }.
ToolCallValue(tc) ==
    [id |-> tc.id, type |-> "function",
     function |-> [name |-> tc.name, arguments |-> tc.arguments]]

\* ChatMessage::to_openai_value: role, content, optional tool_calls and tool_call_id.
ToOpenAiValue(m) ==
    LET v0 == [role |-> m.role]
        v1 == IF m.content # None THEN JsonSet(v0, "content", m.content[1]) ELSE v0
        v2 == IF m.tool_calls # <<>>
              THEN JsonSet(v1, "tool_calls",
                           [ k \in 1..Len(m.tool_calls) |-> ToolCallValue(m.tool_calls[k]) ])
              ELSE v1
    IN IF m.tool_call_id # None THEN JsonSet(v2, "tool_call_id", m.tool_call_id[1]) ELSE v2

\* to_openai_tools: every schema in the envelope, one already in it passed through.
ToOpenAiTools(tools) ==
    [ k \in 1..Len(tools) |->
        IF "function" \in DOMAIN tools[k] THEN tools[k]
        ELSE [type |-> "function", function |-> tools[k]] ]

\* The provider name is compared as it is written.
NeedsReasoningExactName(p) ==
    \/ p.provider_name = Moonshot
    \/ Contains(p.base_url, <<"moonshot", ".", "ai">>)
    \/ Contains(p.base_url, <<"moonshot", ".", "cn">>)

\* openai.rs:376
NeedsReasoning(p) == RequiresReasoningContentOnToolMessages(p)

\* openai.rs:386-397: is_assistant and has_tool_calls of the serialized value.
IsAssistantWithToolCalls(value) ==
    /\ value.role = "assistant"
    /\ "tool_calls" \in DOMAIN value
    /\ value.tool_calls # <<>>

\* openai.rs:399-413: reasoning_content is added, and content if it is missing.
WithReasoningContent(value) ==
    LET reasoning_content == IF "content" \in DOMAIN value THEN value.content ELSE ""
        v1 == IF "content" \notin DOMAIN value THEN JsonSet(value, "content", "") ELSE value
    IN IF "reasoning_content" \notin DOMAIN v1
       THEN JsonSet(v1, "reasoning_content", reasoning_content)
       ELSE v1

\* openai.rs:375-420
SerializeMessagesForRequest(p, messages) ==
    [ k \in 1..Len(messages) |->
        LET value == ToOpenAiValue(messages[k]) IN
        IF ~NeedsReasoning(p) THEN value
        ELSE IF ~IsAssistantWithToolCalls(value) THEN value
        ELSE WithReasoningContent(value) ]

\* The tools key is set whatever the list.
WithToolsAlways(body, tools) == JsonSet(body, "tools", ToOpenAiTools(tools))

\* openai.rs:455-457 and 534-536: if !tools.is_empty() { body["tools"] = ... }
WithTools(body, tools) ==
    IF tools # <<>> THEN JsonSet(body, "tools", ToOpenAiTools(tools)) ELSE body

\* openai.rs:450-457: the body of complete.
CompleteBody(p, messages, tools) ==
    WithTools([model |-> p.model, messages |-> SerializeMessagesForRequest(p, messages)],
              tools)

\* openai.rs:526-536: the body of stream_with_tools.
StreamBody(p, messages, tools) ==
    WithTools([model |-> p.model, messages |-> SerializeMessagesForRequest(p, messages),
               stream |-> TRUE, stream_options |-> [include_usage |-> TRUE]],
              tools)

\* The request builder is looked at alone.
ReqOnly == LoopIdle /\ SseIdle /\ RouterIdle /\ BackendIdle /\ StoreIdle /\ OauthIdle /\ LlmIdle

\* A provider, and the arguments of one call on it.
InitReq ==
    /\ ReqOnly
    /\ req \in [pc : {"new"}, provider : Providers,
                messages : SeqsUpTo(ChatMessages, MaxMessages),
                tools : SeqsUpTo(ToolSchemas, MaxTools)]

\* openai.rs:445-482: complete(messages, tools) posts its body.
CallComplete ==
    /\ req.pc = "new"
    /\ req' = [pc |-> "posted", provider |-> req.provider, messages |-> req.messages,
               tools |-> req.tools, call |-> "complete",
               body |-> CompleteBody(req.provider, req.messages, req.tools)]
    /\ UNCHANGED notReq

\* openai.rs:512-517: stream(messages) is stream_with_tools(messages, vec![]).
CallStream ==
    /\ req.pc = "new"
    /\ req' = [pc |-> "posted", provider |-> req.provider, messages |-> req.messages,
               tools |-> <<>>, call |-> "stream",
               body |-> StreamBody(req.provider, req.messages, <<>>)]
    /\ UNCHANGED notReq

\* openai.rs:520-553: stream_with_tools(messages, tools) posts its body.
CallStreamWithTools ==
    /\ req.pc = "new"
    /\ req' = [pc |-> "posted", provider |-> req.provider, messages |-> req.messages,
               tools |-> req.tools, call |-> "stream_with_tools",
               body |-> StreamBody(req.provider, req.messages, req.tools)]
    /\ UNCHANGED notReq

NextReq == CallComplete \/ CallStream \/ CallStreamWithTools

SpecReq == InitReq /\ [][NextReq]_vars

(***************************************************************************)
(* Part 4.  SandboxRouter                                                  *)
(*                                                                         *)
(* A session key and a sandbox key are sequences of characters, a HashMap  *)
(* is a function from the keys it holds.  router.calls is the list of the  *)
(* mutating calls made so far, router.answer what the last call returned.  *)
(***************************************************************************)

\* The most mutating calls made on one router.
MaxOps == 3

\* sandbox.rs:14
DEFAULT_SANDBOX_IMAGE == "ubuntu:25.10"

Main == <<"m", "a", "i", "n">>

\* The sessions that get overrides (sandbox.rs:964-995, 1077-1099).
SessionKeys == {Main, <<"s", ":", "1">>}

\* The keys an id is derived for: those, and one with every kind of character.
IdKeys == SessionKeys \cup {<<"Z", "9", "_", ".", "-", " ", "/", "e-acute">>}

SessionImages == {"custom:latest"}

GlobalImages == {"global:v2"}

SkillImages == {"moltis-cache/skill:hash"}

\* SandboxConfig, the fields the router reads (sandbox.rs:64-75).
SandboxConfigs ==
    { [mode |-> "Off", scope |-> "Session", image |-> None],
      [mode |-> "NonMain", scope |-> "Agent", image |-> None],
      [mode |-> "NonMain", scope |-> "Shared", image |-> Some("my-org/image:v1")],
      [mode |-> "All", scope |-> "Session", image |-> Some("my-org/image:v1")] }

\* HashMap::new
EmptyMap == [ k \in {} |-> TRUE ]

\* HashMap::insert
MapInsert(m, key, v) == [ k \in DOMAIN m \cup {key} |-> IF k = key THEN v ELSE m[k] ]

\* HashMap::remove
MapRemove(m, key) == [ k \in DOMAIN m \ {key} |-> m[k] ]

\* HashMap::get
MapGet(m, key) == IF key \in DOMAIN m THEN Some(m[key]) ELSE None

\* No call has returned anything yet.
NoAnswer == [op |-> "none"]

\* sandbox.rs:652-675: SandboxRouter::new / with_backend
NewRouter(config) ==
    [pc |-> "built", config |-> config, overrides |-> EmptyMap,
     image_overrides |-> EmptyMap, global_image_override |-> None,
     keys |-> SessionKeys, calls |-> <<>>, answer |-> NoAnswer,
     resolve |-> [pc |-> "idle"]]

\* NonMain sandboxes every session, main too.
ModeDefaultNonMainAll(mode, session_key) ==
    CASE mode = "Off" -> FALSE
      [] mode = "All" -> TRUE
      [] mode = "NonMain" -> TRUE

\* sandbox.rs:682-686: match self.config.mode
ModeDefault(mode, session_key) ==
    CASE mode = "Off" -> FALSE
      [] mode = "All" -> TRUE
      [] mode = "NonMain" -> session_key # Main

\* sandbox.rs:678-688
IsSandboxed(r, session_key) ==
    IF MapGet(r.overrides, session_key) # None
    THEN MapGet(r.overrides, session_key)[1]
    ELSE ModeDefault(r.config.mode, session_key)

\* The configured image wins over the runtime global image.
DefaultImageConfigFirst(r) ==
    IF r.config.image # None THEN r.config.image[1]
    ELSE IF r.global_image_override # None THEN r.global_image_override[1]
    ELSE DEFAULT_SANDBOX_IMAGE

\* sandbox.rs:769-777
DefaultImage(r) ==
    IF r.global_image_override # None THEN r.global_image_override[1]
    ELSE IF r.config.image # None THEN r.config.image[1]
    ELSE DEFAULT_SANDBOX_IMAGE

\* sandbox.rs:787-795
ResolveImage(r, session_key, skill_image) ==
    IF skill_image # None THEN skill_image[1]
    ELSE IF MapGet(r.image_overrides, session_key) # None
    THEN MapGet(r.image_overrides, session_key)[1]
    ELSE DefaultImage(r)

\* char::is_ascii_alphanumeric, on the characters of the keys
IsAsciiAlphanumeric(c) == c \in {"m", "a", "i", "n", "s", "1", "Z", "9"}

\* The dot is not let through.
SanitizeCharNoDot(c) ==
    IF IsAsciiAlphanumeric(c) \/ c = "-" \/ c = "_" THEN c ELSE "-"

\* sandbox.rs:707-713: the closure of map
SanitizeChar(c) ==
    IF IsAsciiAlphanumeric(c) \/ c = "-" \/ c = "_" \/ c = "." THEN c ELSE "-"

\* sandbox.rs:704-719
SandboxIdFor(r, session_key) ==
    [scope |-> r.config.scope,
     key |-> [ k \in 1..Len(session_key) |-> SanitizeChar(session_key[k]) ]]

\* One more mutating call, and nothing returned.
Called(r, call) == [r EXCEPT !.calls = Append(@, call), !.answer = NoAnswer]

\* The router is looked at alone.
RouterOnly == LoopIdle /\ SseIdle /\ ReqIdle /\ BackendIdle /\ StoreIdle /\ OauthIdle /\ LlmIdle

InitRouter ==
    /\ RouterOnly
    /\ router \in { NewRouter(config) : config \in SandboxConfigs }

\* sandbox.rs:690-695
SetOverride ==
    /\ router.pc = "built"
    /\ Len(router.calls) < MaxOps
    /\ \E session_key \in router.keys, enabled \in BOOLEAN :
         router' = Called([router EXCEPT !.overrides = MapInsert(@, session_key, enabled)],
                          [op |-> "set_override", key |-> session_key,
                           value |-> Some(enabled)])
    /\ UNCHANGED notRouter

\* sandbox.rs:698-700
RemoveOverride ==
    /\ router.pc = "built"
    /\ Len(router.calls) < MaxOps
    /\ \E session_key \in SessionKeys :
         router' = Called([router EXCEPT !.overrides = MapRemove(@, session_key)],
                          [op |-> "remove_override", key |-> session_key, value |-> None])
    /\ UNCHANGED notRouter

\* sandbox.rs:750-755
SetImageOverride ==
    /\ router.pc = "built"
    /\ Len(router.calls) < MaxOps
    /\ \E session_key \in router.keys, image \in SessionImages :
         router' = Called([router EXCEPT !.image_overrides = MapInsert(@, session_key, image)],
                          [op |-> "set_image_override", key |-> session_key,
                           value |-> Some(image)])
    /\ UNCHANGED notRouter

\* sandbox.rs:758-760
RemoveImageOverride ==
    /\ router.pc = "built"
    /\ Len(router.calls) < MaxOps
    /\ \E session_key \in SessionKeys :
         router' = Called([router EXCEPT !.image_overrides = MapRemove(@, session_key)],
                          [op |-> "remove_image_override", key |-> session_key,
                           value |-> None])
    /\ UNCHANGED notRouter

\* sandbox.rs:764-766
SetGlobalImage ==
    /\ router.pc = "built"
    /\ Len(router.calls) < MaxOps
    /\ \E image \in {None} \cup {Some(i) : i \in GlobalImages} :
         router' = Called([router EXCEPT !.global_image_override = image],
                          [op |-> "set_global_image", key |-> <<>>, value |-> image])
    /\ UNCHANGED notRouter

\* sandbox.rs:678-688: is_sandboxed(session_key) returns.
CallIsSandboxed ==
    /\ router.pc = "built"
    /\ \E session_key \in SessionKeys :
         router' = [router EXCEPT !.answer =
                      [op |-> "is_sandboxed", key |-> session_key,
                       value |-> IsSandboxed(router, session_key)]]
    /\ UNCHANGED notRouter

\* sandbox.rs:787-795: resolve_image(session_key, skill_image) returns.
CallResolveImage ==
    /\ router.pc = "built"
    /\ \E session_key \in SessionKeys, skill_image \in {None} \cup {Some(i) : i \in SkillImages} :
         router' = [router EXCEPT !.answer =
                      [op |-> "resolve_image", key |-> session_key, skill |-> skill_image,
                       value |-> ResolveImage(router, session_key, skill_image)]]
    /\ UNCHANGED notRouter

\* sandbox.rs:704-719: sandbox_id_for(session_key) returns.
CallSandboxIdFor ==
    /\ router.pc = "built"
    /\ \E session_key \in IdKeys :
         router' = [router EXCEPT !.answer =
                      [op |-> "sandbox_id_for", key |-> session_key,
                       value |-> SandboxIdFor(router, session_key)]]
    /\ UNCHANGED notRouter

NextRouter ==
    \/ SetOverride \/ RemoveOverride
    \/ SetImageOverride \/ RemoveImageOverride \/ SetGlobalImage
    \/ CallIsSandboxed \/ CallResolveImage \/ CallSandboxIdFor

SpecRouter == InitRouter /\ [][NextRouter]_vars

(***************************************************************************)
(* resolve_image as it runs beside the writers, sandbox.rs:787-795: the    *)
(* read lock of image_overrides is taken and released at line 791, the one *)
(* of global_image_override inside default_image (770), and the writers    *)
(* take each write lock for one statement (750, 759, 765).                 *)
(***************************************************************************)

\* The override of the main session is read.
ImageOverrideReadMain(r, session_key) == MapGet(r.image_overrides, Main)

\* sandbox.rs:791: self.image_overrides.read().await.get(session_key)
ImageOverrideRead(r, session_key) == MapGet(r.image_overrides, session_key)

\* sandbox.rs:788-793: the skill image, else the read of image_overrides.
ResolveImageBegins ==
    /\ router.pc = "built"
    /\ router.resolve.pc \in {"idle", "returned"}
    /\ \E session_key \in router.keys, skill_image \in {None} \cup {Some(i) : i \in SkillImages} :
         LET found == ImageOverrideRead(router, session_key)
             call == [pc |-> "default", key |-> session_key, skill |-> skill_image,
                      from |-> Len(router.calls), to |-> Len(router.calls),
                      before |-> [config |-> router.config,
                                  image_overrides |-> router.image_overrides,
                                  global_image_override |-> router.global_image_override],
                      value |-> ""]
         IN  router' = [router EXCEPT !.resolve =
                          IF skill_image # None
                          THEN [call EXCEPT !.pc = "returned", !.value = skill_image[1]]
                          ELSE IF found # None
                          THEN [call EXCEPT !.pc = "returned", !.value = found[1]]
                          ELSE call]
    /\ UNCHANGED notRouter

\* sandbox.rs:794, 769-777: self.default_image().await
ResolveImageDefault ==
    /\ router.pc = "built"
    /\ router.resolve.pc = "default"
    /\ router' = [router EXCEPT !.resolve.pc = "returned",
                                !.resolve.to = Len(router.calls),
                                !.resolve.value = DefaultImage(router)]
    /\ UNCHANGED notRouter

NextResolve ==
    \/ SetImageOverride \/ RemoveImageOverride \/ SetGlobalImage
    \/ ResolveImageBegins \/ ResolveImageDefault

SpecResolve == InitRouter /\ [][NextResolve]_vars

(***************************************************************************)
(* Part 5.  The sandbox backends and cleanup_session                       *)
(*                                                                         *)
(* A backend is known by its backend_name: "docker", "apple-container" or  *)
(* "none".  The host says what the build and the PATH provide.  The        *)
(* containers are the container names {prefix}-{id.key} that exist, each   *)
(* written as its id.key.                                                  *)
(***************************************************************************)

\* The hosts: the target of the build and the CLIs that answer --version.
Hosts == [macos : BOOLEAN, container_cli : BOOLEAN, docker_cli : BOOLEAN]

\* config.backend as configured (spec 3: auto, docker, apple-container, cgroup).
BackendNames == {"auto", "docker", "apple-container", "cgroup"}

\* SandboxConfig with its backend field.
BackendConfigs ==
    { [mode |-> c.mode, scope |-> c.scope, image |-> c.image, backend |-> b] :
        c \in SandboxConfigs, b \in BackendNames }

\* sandbox.rs:630-637, for the CLI of the name
IsCliAvailable(host, name) ==
    CASE name = "container" -> host.container_cli
      [] name = "docker" -> host.docker_cli

\* sandbox.rs:611-627
AutoDetectBackend(host) ==
    IF host.macos /\ IsCliAvailable(host, "container") THEN "apple-container"
    ELSE IF IsCliAvailable(host, "docker") THEN "docker"
    ELSE "none"

\* The apple-container arm is compiled in on every target.
SelectBackendAnyTarget(config, host) ==
    CASE config.backend = "docker" -> "docker"
      [] config.backend = "apple-container" -> "apple-container"
      [] OTHER -> AutoDetectBackend(host)

\* sandbox.rs:602-609: the apple-container arm exists with target_os = "macos" only.
SelectBackend(config, host) ==
    CASE config.backend = "docker" -> "docker"
      [] config.backend = "apple-container" /\ host.macos -> "apple-container"
      [] OTHER -> AutoDetectBackend(host)

\* sandbox.rs:592-594
CreateSandboxBackend(config, host) == SelectBackend(config, host)

\* No cleanup_session call is in flight and none has returned.
NoCleanup == [pc |-> "idle"]

\* The callers of ensure_ready.
EnsureTasks == {"e1", "e2"}

\* sandbox.rs:126-131: DockerSandbox::image
BackendImage(config) ==
    IF config.image # None THEN config.image[1] ELSE DEFAULT_SANDBOX_IMAGE

(* The backend of a router on a host, with the containers that exist (a    *)
(* container runs sleep infinity until it is removed), the image each was  *)
(* started with, and the ensure_ready calls made and in flight.            *)
NewBackend(config, host, cli_works, containers) ==
    [pc |-> "ready", host |-> host, kind |-> CreateSandboxBackend(config, host),
     cli_works |-> cli_works, containers |-> containers, cleanup |-> NoCleanup,
     exec |-> [pc |-> "idle"],
     images |-> [ k \in containers |-> BackendImage(config) ],
     ensure |-> [ t \in EnsureTasks |-> [pc |-> "idle"] ],
     ensured |-> 0]

\* The keys of the ids of the sessions.
ContainerKeys ==
    { [ k \in 1..Len(key) |-> SanitizeChar(key[k]) ] : key \in SessionKeys }

\* No container is removed.
CleanupContainersKept(b, id) == b.containers

(* sandbox.rs:277-285, 566-578, 304-306: what cleanup(id) leaves of the     *)
(* containers: docker rm -f and container stop + rm remove the one of the  *)
(* name when the CLI reaches its runtime, NoSandbox has none.              *)
CleanupContainers(b, id) ==
    IF b.kind \in {"docker", "apple-container"} /\ b.cli_works
    THEN b.containers \ {id.key}
    ELSE b.containers

\* The error of the CLI is handed on when there was no container to remove.
BackendCleanupResultChecked(b, id) ==
    IF b.kind = "none" \/ (b.cli_works /\ id.key \in b.containers) THEN "Ok" ELSE "Err"

\* sandbox.rs:279-284, 568-577, 305: let _ = ...; Ok(())
BackendCleanupResult(b, id) == "Ok"

\* Every override is dropped.
CleanupOverridesAll(overrides, session_key) == EmptyMap

\* sandbox.rs:725: self.remove_override(session_key).await
CleanupOverrides(overrides, session_key) == MapRemove(overrides, session_key)

\* sandbox.rs:652-663: SandboxRouter::new on the host, for the cleanup of sessions.
InitCleanup ==
    /\ LoopIdle /\ SseIdle /\ ReqIdle /\ StoreIdle /\ OauthIdle /\ LlmIdle
    /\ \E config \in BackendConfigs, host \in Hosts, cli_works \in BOOLEAN,
          containers \in {{}, ContainerKeys} :
         /\ config.backend = "auto"
         /\ host.container_cli = host.macos
         /\ host.macos => ~host.docker_cli
         /\ router = NewRouter(config)
         /\ backend = NewBackend(config, host, cli_works, containers)

\* sandbox.rs:722-723: cleanup_session(session_key) derives the id and calls the backend.
CleanupSessionCall ==
    /\ router.pc = "built"
    /\ backend.pc = "ready"
    /\ backend.cleanup.pc \in {"idle", "returned"}
    /\ Len(router.calls) < MaxOps
    /\ \E session_key \in router.keys :
         backend' = [backend EXCEPT !.cleanup =
                       [pc |-> "backend", key |-> session_key, result |-> "pending",
                        id |-> SandboxIdFor(router, session_key),
                        before |-> [calls |-> router.calls,
                                    overrides |-> router.overrides,
                                    image_overrides |-> router.image_overrides,
                                    containers |-> backend.containers]]]
    /\ UNCHANGED <<router, notBackend>>

\* sandbox.rs:724: self.backend.cleanup(&id).await?
BackendCleanup ==
    /\ backend.pc = "ready"
    /\ backend.cleanup.pc = "backend"
    /\ backend' = [backend EXCEPT
                     !.containers = CleanupContainers(backend, backend.cleanup.id),
                     !.images = [ k \in CleanupContainers(backend, backend.cleanup.id) |-> @[k] ],
                     !.cleanup.pc =
                        IF BackendCleanupResult(backend, backend.cleanup.id) = "Ok"
                        THEN "remove" ELSE "returned",
                     !.cleanup.result =
                        IF BackendCleanupResult(backend, backend.cleanup.id) = "Ok"
                        THEN "pending" ELSE "Err"]
    /\ router' = IF BackendCleanupResult(backend, backend.cleanup.id) = "Ok"
                 THEN router
                 ELSE Called(router, [op |-> "cleanup_session", key |-> backend.cleanup.key,
                                      value |-> None])
    /\ UNCHANGED notBackend

\* sandbox.rs:725-726: the override of the session is removed, Ok(()) is returned.
CleanupSessionReturn ==
    /\ backend.pc = "ready"
    /\ backend.cleanup.pc = "remove"
    /\ router' = Called([router EXCEPT
                           !.overrides = CleanupOverrides(@, backend.cleanup.key)],
                        [op |-> "cleanup_session", key |-> backend.cleanup.key,
                         value |-> None])
    /\ backend' = [backend EXCEPT !.cleanup.pc = "returned", !.cleanup.result = "Ok"]
    /\ UNCHANGED notBackend

NextCleanup ==
    \/ SetOverride \/ RemoveOverride
    \/ CleanupSessionCall \/ BackendCleanup \/ CleanupSessionReturn

SpecCleanup == InitCleanup /\ [][NextCleanup]_vars

(* cleanup_session among the calls that set the images of the sessions.    *)
NextCleanupImage ==
    \/ SetImageOverride \/ RemoveImageOverride \/ SetGlobalImage
    \/ CleanupSessionCall \/ BackendCleanup \/ CleanupSessionReturn

SpecCleanupImage == InitCleanup /\ [][NextCleanupImage]_vars

(***************************************************************************)
(* DockerSandbox::ensure_ready, sandbox.rs:179-225.  The check (docker     *)
(* inspect) and the start (docker run -d --name ...) are two awaits, so    *)
(* the calls of two tasks interleave between them.                         *)
(***************************************************************************)

\* The calls of ensure_ready that are made.
MaxEnsures == 2

\* Two session keys whose ids have the same key.
CollidingKeys == {<<"s", ":", "1">>, <<"s", "/", "1">>}

\* The images a caller asks for.
ImageOverrides == {None, Some("custom:latest")}

\* The check sees every container as running.
EnsureObservedAny(b, id) == b.cli_works

(* sandbox.rs:181-191: docker inspect prints "true" for a running          *)
(* container of the name; a failed inspect goes on to the start.           *)
EnsureObserved(b, id) == b.cli_works /\ id.key \in b.containers

\* The image of the configuration before the one of the caller.
ImageToRunConfigFirst(config, image_override) ==
    IF config.image # None THEN config.image[1]
    ELSE IF image_override # None THEN image_override[1] ELSE DEFAULT_SANDBOX_IMAGE

\* sandbox.rs:209: image_override.unwrap_or_else(|| self.image())
ImageToRun(config, image_override) ==
    IF image_override # None THEN image_override[1] ELSE BackendImage(config)

\* docker run replaces the container of the name.
RunSucceedsAlways(b, id) == b.cli_works

(* sandbox.rs:213-222: docker run -d --name fails when the CLI does not    *)
(* reach its daemon, and when a container of the name exists.              *)
RunSucceeds(b, id) == b.cli_works /\ id.key \notin b.containers

\* A router and a docker backend, for sessions whose ids collide.
InitEnsure ==
    /\ LoopIdle /\ SseIdle /\ ReqIdle /\ StoreIdle /\ OauthIdle /\ LlmIdle
    /\ \E config \in BackendConfigs, cli_works \in BOOLEAN,
          containers \in {{}, {<<"s", "-", "1">>}} :
         /\ config.backend = "docker"
         /\ config.mode = "NonMain"
         /\ router = [NewRouter(config) EXCEPT !.keys = CollidingKeys]
         /\ backend = NewBackend(config,
                                 [macos |-> FALSE, container_cli |-> FALSE,
                                  docker_cli |-> TRUE],
                                 cli_works, containers)

\* sandbox.rs:179-191: the name is derived and the container inspected.
EnsureInspect ==
    /\ backend.pc = "ready"
    /\ backend.kind = "docker"
    /\ backend.ensured < MaxEnsures
    /\ \E t \in EnsureTasks, session_key \in router.keys,
          image_override \in ImageOverrides :
         /\ backend.ensure[t].pc \in {"idle", "returned"}
         /\ LET id == SandboxIdFor(router, session_key)
                observed == EnsureObserved(backend, id)
            IN  backend' = [backend EXCEPT
                  !.ensured = @ + 1,
                  !.ensure[t] =
                     [pc |-> IF observed THEN "returned" ELSE "run",
                      n |-> backend.ensured + 1,
                      session_key |-> session_key, id |-> id,
                      image_override |-> image_override,
                      observed |-> observed,
                      image |-> ImageToRun(router.config, image_override),
                      result |-> IF observed THEN "Ok" ELSE "pending"]]
    /\ UNCHANGED <<router, notBackend>>

\* sandbox.rs:193-224: docker run is issued; its failure is the error of the call.
EnsureRun ==
    /\ backend.pc = "ready"
    /\ \E t \in EnsureTasks :
         /\ backend.ensure[t].pc = "run"
         /\ LET call == backend.ensure[t]
                ok == RunSucceeds(backend, call.id)
            IN  backend' = [backend EXCEPT
                  !.containers = IF ok THEN @ \cup {call.id.key} ELSE @,
                  !.images = IF ok THEN MapInsert(@, call.id.key, call.image) ELSE @,
                  !.ensure[t].pc = "returned",
                  !.ensure[t].result = IF ok THEN "Ok" ELSE "Err: docker run failed"]
    /\ UNCHANGED <<router, notBackend>>

NextEnsure ==
    \/ EnsureInspect \/ EnsureRun
    \/ CleanupSessionCall \/ BackendCleanup \/ CleanupSessionReturn

SpecEnsure == InitEnsure /\ [][NextEnsure]_vars

(* The overrides and the cleanup of sessions whose ids collide, on a host  *)
(* where the container of the id may exist.                                *)
InitCollide ==
    /\ LoopIdle /\ SseIdle /\ ReqIdle /\ StoreIdle /\ OauthIdle /\ LlmIdle
    /\ \E config \in BackendConfigs, cli_works \in BOOLEAN,
          containers \in {{}, {<<"s", "-", "1">>}} :
         /\ config.backend = "docker"
         /\ config.mode = "NonMain"
         /\ router = [NewRouter(config) EXCEPT !.keys = CollidingKeys]
         /\ backend = NewBackend(config,
                                 [macos |-> FALSE, container_cli |-> FALSE,
                                  docker_cli |-> TRUE],
                                 cli_works, containers)

NextCollide ==
    \/ SetOverride \/ SetImageOverride
    \/ CleanupSessionCall \/ BackendCleanup \/ CleanupSessionReturn

SpecCollide == InitCollide /\ [][NextCollide]_vars

(***************************************************************************)
(* SandboxRouter::new on every host and for every configuration, and the   *)
(* life of the router after it.                                            *)
(***************************************************************************)

\* The router is not built yet: the host and the configuration are given.
InitSelect ==
    /\ LoopIdle /\ SseIdle /\ ReqIdle /\ StoreIdle /\ OauthIdle /\ LlmIdle
    /\ \E config \in BackendConfigs, host \in Hosts :
         /\ router = [pc |-> "config", config |-> config]
         /\ backend = [pc |-> "host", host |-> host]

\* sandbox.rs:652-663: SandboxRouter::new(config)
RouterNew ==
    /\ router.pc = "config"
    /\ backend.pc = "host"
    /\ router' = NewRouter(router.config)
    /\ backend' = NewBackend(router.config, backend.host, TRUE, ContainerKeys)
    /\ UNCHANGED notBackend

NextSelect ==
    \/ RouterNew
    \/ CleanupSessionCall \/ BackendCleanup \/ CleanupSessionReturn

SpecSelect == InitSelect /\ [][NextSelect]_vars

(***************************************************************************)
(* exec of a container backend (docker exec / container exec).             *)
(*                                                                         *)
(* An output is the bytes the command wrote; a String is a sequence of     *)
(* characters, each with its length in UTF-8.                              *)
(***************************************************************************)

MaxOutputBytes == 2

\* What a command writes to stdout or stderr.
Outputs ==
    { <<>>, <<"a">>, <<"a", "b", "c">>, <<"C3", "A9">>, <<"a", "C3", "A9">>, <<"A9">> }

\* output.status.code(): Some(code), or None for a command ended by a signal.
ExitStatuses == {Some(0), Some(1), None}

\* ExecOpts: timeout in seconds and max_output_bytes.
ExecOptions == [timeout : {1, 30}, max_output_bytes : 1..MaxOutputBytes]

TRUNCATED == "\n... [output truncated]"

\* char::len_utf8
LenUtf8(c) == CASE c = "e-acute" -> 2 [] c = "U+FFFD" -> 3 [] OTHER -> 1

RECURSIVE StrLen(_)
\* String::len, in bytes
StrLen(str) == IF str = <<>> THEN 0 ELSE LenUtf8(str[1]) + StrLen(Tail(str))

\* str::is_char_boundary
IsCharBoundary(str, n) == \E k \in 0..Len(str) : StrLen(SubSeq(str, 1, k)) = n

\* String::truncate(n) where n is a char boundary
Truncate(str, n) ==
    SubSeq(str, 1, CHOOSE k \in 0..Len(str) : StrLen(SubSeq(str, 1, k)) = n)

(* sandbox.rs:253-263: from_utf8_lossy, then truncate and the marker when   *)
(* the string is longer than max_output_bytes.  String::truncate panics    *)
(* when max_output_bytes is not on a char boundary.                        *)
CapOutput(bytes, max_output_bytes) ==
    LET str == FromUtf8Lossy(bytes) IN
    IF StrLen(str) > max_output_bytes
    THEN IF IsCharBoundary(str, max_output_bytes)
         THEN Some(Truncate(str, max_output_bytes) \o <<TRUNCATED>>)
         ELSE None
    ELSE Some(str)

\* The values of tokio::time::timeout(opts.timeout, child.wait_with_output()).
Races ==
    [kind : {"Ok(Ok)"}, stdout : Outputs, stderr : Outputs, status : ExitStatuses]
        \cup {[kind |-> "Ok(Err)"], [kind |-> "Err(Elapsed)"]}

\* sandbox.rs:268: output.status.code().unwrap_or(-1)
ExitCode(status) == IF status = None THEN -1 ELSE status[1]

\* A timeout gives an empty result.
ElapsedResultEmpty(opts) ==
    [kind |-> "ExecResult", stdout |-> <<>>, stderr |-> <<>>, exit_code |-> 0]

\* sandbox.rs:273: bail!("docker exec timed out after {}s", opts.timeout.as_secs())
ElapsedResult(opts) ==
    [kind |-> "Err", error |-> <<"exec timed out after ", opts.timeout, "s">>]

\* sandbox.rs:252-274, 527-562: match result
MatchResult(race, opts) ==
    CASE race.kind = "Ok(Ok)" ->
           LET stdout == CapOutput(race.stdout, opts.max_output_bytes)
               stderr == CapOutput(race.stderr, opts.max_output_bytes) IN
           IF stdout = None \/ stderr = None
           THEN [kind |-> "panic"]
           ELSE [kind |-> "ExecResult", stdout |-> stdout[1], stderr |-> stderr[1],
                 exit_code |-> ExitCode(race.status)]
      [] race.kind = "Ok(Err)" -> [kind |-> "Err", error |-> <<"exec failed">>]
      [] race.kind = "Err(Elapsed)" -> ElapsedResult(opts)

\* No exec is in flight and none has ended.
NoExec == [pc |-> "idle"]

\* The router is built on a host with a container backend; no exec yet.
InitExec ==
    /\ LoopIdle /\ SseIdle /\ ReqIdle /\ StoreIdle /\ OauthIdle /\ LlmIdle
    /\ \E config \in BackendConfigs, host \in Hosts :
         /\ config.backend = "auto" /\ config.mode = "All"
         /\ host.container_cli = host.macos
         /\ host.docker_cli = ~host.macos
         /\ router = NewRouter(config)
         /\ backend = [NewBackend(config, host, TRUE, ContainerKeys) EXCEPT
                         !.exec = NoExec]

\* sandbox.rs:228-248: the arguments are built and the CLI is spawned.
ExecSpawns ==
    /\ backend.pc = "ready"
    /\ backend.exec.pc # "waiting"
    /\ \E opts \in ExecOptions :
         backend' = [backend EXCEPT !.exec = [pc |-> "waiting", opts |-> opts]]
    /\ UNCHANGED <<router, notBackend>>

\* sandbox.rs:244-248: spawn()? hands the error of the spawn on.
ExecSpawnFails ==
    /\ backend.pc = "ready"
    /\ backend.exec.pc # "waiting"
    /\ \E opts \in ExecOptions :
         backend' = [backend EXCEPT !.exec =
                       [pc |-> "ended", opts |-> opts, race |-> [kind |-> "none"],
                        result |-> [kind |-> "Err", error |-> <<"spawn">>]]]
    /\ UNCHANGED <<router, notBackend>>

\* The backend when exec ends with the value of the timeout future.
ExecEnds(b, race) ==
    [b EXCEPT !.exec = [pc |-> "ended", opts |-> b.exec.opts, race |-> race,
                        result |-> MatchResult(race, b.exec.opts)]]

\* sandbox.rs:250-271: the command finishes before the timeout.
CommandFinishes ==
    /\ backend.pc = "ready"
    /\ backend.exec.pc = "waiting"
    /\ \E race \in Races :
         /\ race.kind = "Ok(Ok)"
         /\ backend' = ExecEnds(backend, race)
    /\ UNCHANGED <<router, notBackend>>

\* sandbox.rs:250, 272: waiting for the child fails before the timeout.
WaitFails ==
    /\ backend.pc = "ready"
    /\ backend.exec.pc = "waiting"
    /\ backend' = ExecEnds(backend, [kind |-> "Ok(Err)"])
    /\ UNCHANGED <<router, notBackend>>

\* sandbox.rs:250, 273: opts.timeout passes before the command has finished.
TimeoutFires ==
    /\ backend.pc = "ready"
    /\ backend.exec.pc = "waiting"
    /\ backend' = ExecEnds(backend, [kind |-> "Err(Elapsed)"])
    /\ UNCHANGED <<router, notBackend>>

NextExec == ExecSpawns \/ ExecSpawnFails \/ CommandFinishes \/ WaitFails \/ TimeoutFires

SpecExec == InitExec /\ [][NextExec]_vars

\* The timer of tokio::time::timeout fires unless the future ended first.
SpecExecFair == SpecExec /\ WF_vars(TimeoutFires)

(***************************************************************************)
(* Part 6.  ShareStore                                                     *)
(*                                                                         *)
(* The table session_shares is a set of rows; of a row the id, the         *)
(* session_key, views and revoked_at are kept (visibility, the snapshot    *)
(* and the token hash are written once and never read by the statements).  *)
(* SQLite has one writer at a time: a statement that writes waits for the  *)
(* transaction that holds the write lock, or fails as busy.  A task is one *)
(* caller of the store; the calls of the tasks interleave at the awaits.   *)
(***************************************************************************)

MaxShareOps == 4

\* The callers of the store.
Tasks == {"t1", "t2"}

\* The session keys that are shared.
ShareKeys == {"main", "s:1"}

\* The ids that were generated, and one that never was.
UnknownId == 0

\* The row is inserted with its revoked_at set.
NewRowRevoked(id, session_key, now) ==
    [id |-> id, session_key |-> session_key, views |-> 0, revoked_at |-> Some(now)]

\* share_store.rs:233-239: VALUES (?, ?, ?, ?, ?, ?, 0, ?, NULL)
NewRow(id, session_key, now) ==
    [id |-> id, session_key |-> session_key, views |-> 0, revoked_at |-> None]

\* share_store.rs:225-227: UPDATE ... SET revoked_at = ? WHERE session_key = ? AND revoked_at IS NULL
RevokeActive(rows, session_key, now) ==
    { IF r.session_key = session_key /\ r.revoked_at = None
      THEN [r EXCEPT !.revoked_at = Some(now)] ELSE r : r \in rows }

\* The UPDATE without its test of revoked_at: a revoked share is revoked again.
RevokeByIdAgain(rows, id, now) ==
    { IF r.id = id THEN [r EXCEPT !.revoked_at = Some(now)] ELSE r : r \in rows }

\* share_store.rs:288-290: UPDATE ... SET revoked_at = ? WHERE id = ? AND revoked_at IS NULL
RevokeById(rows, id, now) ==
    { IF r.id = id /\ r.revoked_at = None
      THEN [r EXCEPT !.revoked_at = Some(now)] ELSE r : r \in rows }

\* The rows an UPDATE ... WHERE id = ? AND revoked_at IS NULL affects.
ActiveById(rows, id) == { r \in rows : r.id = id /\ r.revoked_at = None }

\* The views of every share of the id are raised, revoked or not.
AddViewAlways(rows, id) ==
    { IF r.id = id THEN [r EXCEPT !.views = @ + 1] ELSE r : r \in rows }

\* share_store.rs:311-313: UPDATE ... SET views = views + 1 WHERE id = ? AND revoked_at IS NULL
AddView(rows, id) ==
    { IF r.id = id /\ r.revoked_at = None
      THEN [r EXCEPT !.views = @ + 1] ELSE r : r \in rows }

\* share_store.rs:166, 209-213: the PRIMARY KEY and the unique index of the active share of a session.
InsertAllowed(rows, row) ==
    /\ \A r \in rows : r.id # row.id
    /\ row.revoked_at = None =>
         \A r \in rows : ~(r.session_key = row.session_key /\ r.revoked_at = None)

\* SELECT ... WHERE id = ?: Some(row) or None
RowById(rows, id) ==
    IF \E r \in rows : r.id = id THEN Some(CHOOSE r \in rows : r.id = id) ELSE None

\* share_store.rs:276-284: SELECT ... WHERE id = ? AND revoked_at IS NULL: Some(row) or None
GetActiveById(rows, id) ==
    IF ActiveById(rows, id) # {} THEN Some(CHOOSE r \in ActiveById(rows, id) : TRUE) ELSE None

\* A task that has made no call.
NoCall == [pc |-> "idle"]

\* share_store.rs:184-216: a new store on an empty table.
InitStore ==
    /\ LoopIdle /\ SseIdle /\ ReqIdle /\ RouterIdle /\ BackendIdle /\ OauthIdle /\ LlmIdle
    /\ store = [pc |-> "open", rows |-> {}, writer |-> None, calls |-> 0,
                tasks |-> [t \in Tasks |-> NoCall]]

\* The task can make its next call.
CanCall(t) ==
    /\ store.pc = "open"
    /\ store.tasks[t].pc \in {"idle", "returned"}
    /\ store.calls < MaxShareOps

(* share_store.rs:218-229: create_or_replace takes a random id and the    *)
(* time and begins a transaction.                                          *)
CreateBegin ==
    \E t \in Tasks, session_key \in ShareKeys :
        /\ CanCall(t)
        /\ store' = [store EXCEPT
                       !.calls = @ + 1,
                       !.tasks[t] = [pc |-> "begun", op |-> "create_or_replace",
                                     id |-> store.calls + 1, now |-> store.calls + 1,
                                     session_key |-> session_key, tx |-> {},
                                     result |-> None]]
        /\ UNCHANGED notStore

\* share_store.rs:231-239: the UPDATE takes the write lock and revokes the active shares of the session.
CreateUpdate ==
    \E t \in Tasks :
        /\ store.pc = "open"
        /\ store.tasks[t].pc = "begun"
        /\ store.writer = None
        /\ store' = [store EXCEPT
                       !.writer = Some(t),
                       !.tasks[t].pc = "updated",
                       !.tasks[t].tx = RevokeActive(store.rows, store.tasks[t].session_key,
                                                    store.tasks[t].now)]
        /\ UNCHANGED notStore

\* share_store.rs:239: the UPDATE fails as busy, `?` returns the error and the transaction is dropped.
CreateBusy ==
    \E t \in Tasks :
        /\ store.pc = "open"
        /\ store.tasks[t].pc = "begun"
        /\ store.writer # None
        /\ store' = [store EXCEPT
                       !.tasks[t].pc = "returned",
                       !.tasks[t].result = Some([kind |-> "Err", error |-> "busy"])]
        /\ UNCHANGED notStore

\* share_store.rs:241-256: the INSERT of the new row, or its error and the rollback.
CreateInsert ==
    \E t \in Tasks :
        /\ store.pc = "open"
        /\ store.tasks[t].pc = "updated"
        /\ LET c == store.tasks[t]
               row == NewRow(c.id, c.session_key, c.now) IN
           store' = IF InsertAllowed(c.tx, row)
                    THEN [store EXCEPT !.tasks[t].pc = "inserted",
                                       !.tasks[t].tx = c.tx \cup {row}]
                    ELSE [store EXCEPT !.writer = None,
                                       !.tasks[t].pc = "returned",
                                       !.tasks[t].result =
                                          Some([kind |-> "Err", error |-> "constraint"])]
        /\ UNCHANGED notStore

\* share_store.rs:258: tx.commit()
CreateCommit ==
    \E t \in Tasks :
        /\ store.pc = "open"
        /\ store.tasks[t].pc = "inserted"
        /\ store' = [store EXCEPT !.rows = store.tasks[t].tx,
                                  !.writer = None,
                                  !.tasks[t].pc = "committed"]
        /\ UNCHANGED notStore

\* share_store.rs:260-265: the row is read back by its id and returned.
CreateReturn ==
    \E t \in Tasks :
        /\ store.pc = "open"
        /\ store.tasks[t].pc = "committed"
        /\ LET row == RowById(store.rows, store.tasks[t].id) IN
           store' = [store EXCEPT
                       !.tasks[t].pc = "returned",
                       !.tasks[t].result =
                          IF row = None
                          THEN Some([kind |-> "Err", error |-> "newly created share not found"])
                          ELSE Some([kind |-> "Ok", share |-> row[1]])]
        /\ UNCHANGED notStore

\* share_store.rs:286-296: revoke(id), one statement.
Revoke ==
    \E t \in Tasks, id \in {UnknownId} \cup 1..store.calls :
        /\ CanCall(t)
        /\ store.writer = None
        /\ store' = [store EXCEPT
                       !.calls = @ + 1,
                       !.rows = RevokeById(@, id, store.calls + 1),
                       !.tasks[t] = [pc |-> "returned", op |-> "revoke", id |-> id,
                                     now |-> store.calls + 1,
                                     result |-> Some([kind |-> "Ok",
                                                      value |-> ActiveById(store.rows, id) # {}])]]
        /\ UNCHANGED notStore

\* share_store.rs:276-284: get_active_by_id(id), one statement.
CallGetActiveById ==
    \E t \in Tasks, id \in {UnknownId} \cup 1..store.calls :
        /\ CanCall(t)
        /\ store' = [store EXCEPT
                       !.calls = @ + 1,
                       !.tasks[t] = [pc |-> "returned", op |-> "get_active_by_id", id |-> id,
                                     result |-> Some([kind |-> "Ok",
                                                      value |-> GetActiveById(store.rows, id)])]]
        /\ UNCHANGED notStore

\* share_store.rs:310-316: increment_views(id), the UPDATE.
IncrementUpdate ==
    \E t \in Tasks, id \in {UnknownId} \cup 1..store.calls :
        /\ CanCall(t)
        /\ store.writer = None
        /\ store' = [store EXCEPT
                       !.calls = @ + 1,
                       !.rows = AddView(@, id),
                       !.tasks[t] = [pc |-> "select", op |-> "increment_views", id |-> id,
                                     before |-> store.rows, after |-> AddView(store.rows, id),
                                     result |-> None]]
        /\ UNCHANGED notStore

\* share_store.rs:318-322: increment_views(id), the SELECT of views and the return.
IncrementSelect ==
    \E t \in Tasks :
        /\ store.pc = "open"
        /\ store.tasks[t].pc = "select"
        /\ LET row == RowById(store.rows, store.tasks[t].id) IN
           store' = [store EXCEPT
                       !.tasks[t].pc = "returned",
                       !.tasks[t].result =
                          IF row = None
                          THEN Some([kind |-> "Err", error |-> "RowNotFound"])
                          ELSE Some([kind |-> "Ok", value |-> row[1].views])]
        /\ UNCHANGED notStore

NextStore ==
    \/ CreateBegin \/ CreateUpdate \/ CreateBusy \/ CreateInsert \/ CreateCommit
    \/ CreateReturn \/ Revoke \/ CallGetActiveById \/ IncrementUpdate \/ IncrementSelect

SpecStore == InitStore /\ [][NextStore]_vars

(***************************************************************************)
(* Part 7.  poll_for_token                                                 *)
(*                                                                         *)
(* The token endpoint answers each poll as it likes: with a JSON body that *)
(* may carry access_token and error, with a body that is no JSON object of *)
(* that shape, or not at all.                                              *)
(***************************************************************************)

MaxPolls == 3

\* The intervals of the device code response, in seconds (default 5).
Intervals == {1, 5}

\* The values of the error field of a body.
PollErrors == {"authorization_pending", "slow_down", "access_denied", "expired_token"}

\* TokenPollResponse: the bodies that deserialize.
TokenPollResponses ==
    [access_token : {None, Some("gho_abc")},
     error : {None} \cup { Some(e) : e \in PollErrors }]

\* What a poll gets: a body, a body that does not deserialize, or no response.
PollReplies ==
    { [kind |-> "body", body |-> b] : b \in TokenPollResponses }
        \cup { [kind |-> "bad json"], [kind |-> "send error"] }

\* The error field is looked at before the token.
PollOutcomeErrorFirst(body) ==
    IF body.error = Some("authorization_pending") THEN [kind |-> "continue", sleep |-> 0]
    ELSE IF body.error = Some("slow_down") THEN [kind |-> "continue", sleep |-> 5]
    ELSE IF body.error # None
    THEN [kind |-> "Err", error |-> <<"device flow error: ", body.error[1]>>]
    ELSE IF body.access_token # None
    THEN [kind |-> "Ok", access_token |-> body.access_token[1],
          refresh_token |-> None, expires_at |-> None]
    ELSE [kind |-> "Err", error |-> <<"unexpected response from token endpoint">>]

\* device_flow.rs:70-87: the token first, then the error field.
PollOutcome(body) ==
    IF body.access_token # None
    THEN [kind |-> "Ok", access_token |-> body.access_token[1],
          refresh_token |-> None, expires_at |-> None]
    ELSE IF body.error = Some("authorization_pending") THEN [kind |-> "continue", sleep |-> 0]
    ELSE IF body.error = Some("slow_down") THEN [kind |-> "continue", sleep |-> 5]
    ELSE IF body.error # None
    THEN [kind |-> "Err", error |-> <<"device flow error: ", body.error[1]>>]
    ELSE [kind |-> "Err", error |-> <<"unexpected response from token endpoint">>]

\* device_flow.rs:53-68: what the poll makes of a reply.
ReplyOutcome(reply) ==
    CASE reply.kind = "send error" -> [kind |-> "Err", error |-> <<"send">>]
      [] reply.kind = "bad json" -> [kind |-> "Err", error |-> <<"json">>]
      [] reply.kind = "body" -> PollOutcome(reply.body)

\* slow_down makes every later poll wait five seconds more.
IntervalAfterSlowDown(interval, outcome) ==
    IF outcome.kind = "continue" /\ outcome.sleep > 0 THEN interval + 5 ELSE interval

\* device_flow.rs:49-52: interval is a parameter that the loop never assigns.
IntervalAfter(interval, outcome) == interval

\* device_flow.rs:45-50: poll_for_token is called with an interval.
InitOauth ==
    /\ LoopIdle /\ SseIdle /\ ReqIdle /\ RouterIdle /\ BackendIdle /\ StoreIdle /\ LlmIdle
    /\ \E interval \in Intervals :
         oauth = [pc |-> "sleep", interval |-> interval, replies |-> <<>>,
                  slept |-> 0, result |-> None]

\* device_flow.rs:52: tokio::time::sleep(interval)
PollSleep ==
    /\ oauth.pc = "sleep"
    /\ Len(oauth.replies) < MaxPolls
    /\ oauth' = [oauth EXCEPT !.pc = "send", !.slept = @ + oauth.interval]
    /\ UNCHANGED notOauth

\* device_flow.rs:54-87: the request is sent and its reply is looked at.
PollSend ==
    /\ oauth.pc = "send"
    /\ \E reply \in PollReplies :
         LET outcome == ReplyOutcome(reply) IN
         oauth' = [oauth EXCEPT
                     !.replies = Append(@, reply),
                     !.interval = IntervalAfter(@, outcome),
                     !.pc = IF outcome.kind # "continue" THEN "returned"
                            ELSE IF outcome.sleep > 0 THEN "slow down" ELSE "sleep",
                     !.result = IF outcome.kind = "continue" THEN None ELSE Some(outcome)]
    /\ UNCHANGED notOauth

\* device_flow.rs:82: tokio::time::sleep(5 s) after slow_down
SlowDownSleep ==
    /\ oauth.pc = "slow down"
    /\ oauth' = [oauth EXCEPT !.pc = "sleep", !.slept = @ + 5]
    /\ UNCHANGED notOauth

NextOauth == PollSleep \/ PollSend \/ SlowDownSleep

SpecOauth == InitOauth /\ [][NextOauth]_vars

(***************************************************************************)
(* Part 8.  LiveLocalLlmService                                            *)
(*                                                                         *)
(* configure validates its parameters, writes the status, saves the        *)
(* configuration file and spawns the download of the model; the task it    *)
(* spawns writes the status again when the download has ended.  The model  *)
(* registry (find_model), the file system and the download are the         *)
(* environment: they answer as they like.                                  *)
(***************************************************************************)

\* The calls of configure that are made.
MaxConfigures == 2

\* The models that find_model finds.
ModelRegistry == {"qwen2.5-coder-7b-q4_k_m", "llama-3.2-1b-q4_k_m"}

\* The parameters of configure: modelId and backend, each absent or a string.
ConfigureParams ==
    [modelId : {None} \cup { Some(m) : m \in ModelRegistry \cup {"no-such-model"} },
     backend : {None, Some("GGUF"), Some("MLX"), Some("ONNX")}]

\* local_llm_setup.rs:157-176: LocalLlmStatus
LlmStatus(kind, model_id, error) == [kind |-> kind, model_id |-> model_id, error |-> error]

\* local_llm_setup.rs:339-348: the backend of the call, MLX or GGUF by default.
ConfigureBackend(params, mlx_available) ==
    IF params.backend # None THEN params.backend[1]
    ELSE IF mlx_available THEN "MLX" ELSE "GGUF"

\* local_llm_setup.rs:331-362: the error of the validation, or "ok".
Validate(params, mlx_available) ==
    LET chosen == ConfigureBackend(params, mlx_available) IN
    IF params.modelId = None THEN "missing 'modelId' parameter"
    ELSE IF chosen # "GGUF" /\ chosen # "MLX" THEN "invalid backend"
    ELSE IF chosen = "MLX" /\ ~mlx_available THEN "MLX backend requires mlx-lm"
    ELSE IF params.modelId[1] \notin ModelRegistry THEN "unknown model"
    ELSE "ok"

\* The status is written only when the configuration has been saved.
StatusWhenSavingAfter(status, model_id, saved) ==
    IF saved THEN LlmStatus("Loading", model_id, "") ELSE status

\* local_llm_setup.rs:367-374: the status is Loading before config.save() is called.
StatusWhenSaving(status, model_id, saved) == LlmStatus("Loading", model_id, "")

\* local_llm_setup.rs:468-519: the status that the download task writes.
StatusAfterDownload(model_id, ok) ==
    IF ok THEN LlmStatus("Ready", model_id, "")
    ELSE LlmStatus("Error", model_id, "download failed")

\* local_llm_setup.rs:187-201: LiveLocalLlmService::new, with or without a saved config.
InitLlm ==
    /\ LoopIdle /\ SseIdle /\ ReqIdle /\ RouterIdle /\ BackendIdle /\ StoreIdle /\ OauthIdle
    /\ \E config \in {None} \cup { Some(m) : m \in ModelRegistry }, mlx_available \in BOOLEAN :
         llm = [pc |-> "live", mlx_available |-> mlx_available, config |-> config,
                status |-> IF config # None THEN LlmStatus("Ready", config[1], "")
                           ELSE LlmStatus("Unconfigured", "", ""),
                call |-> [pc |-> "idle"], configures |-> 0, tasks |-> {},
                registered |-> {}]

\* local_llm_setup.rs:330-364: configure is called and validates its parameters.
ConfigureCall ==
    /\ llm.pc = "live"
    /\ llm.call.pc \in {"idle", "returned"}
    /\ llm.configures < MaxConfigures
    /\ \E params \in ConfigureParams :
         LET v == Validate(params, llm.mlx_available) IN
         llm' = [llm EXCEPT
                   !.configures = @ + 1,
                   !.call = [pc |-> IF v = "ok" THEN "loading" ELSE "returned",
                             n |-> llm.configures + 1, params |-> params,
                             result |-> IF v = "ok" THEN "pending" ELSE "Err",
                             error |-> IF v = "ok" THEN "" ELSE v]]
    /\ UNCHANGED notLlm

(* local_llm_setup.rs:366-527: the status is written, the configuration    *)
(* saved and the download spawned; a failed save is the error of the call. *)
ConfigureLoads ==
    /\ llm.pc = "live"
    /\ llm.call.pc = "loading"
    /\ \E saved \in BOOLEAN :
         LET model_id == llm.call.params.modelId[1] IN
         llm' = [llm EXCEPT
                   !.status = StatusWhenSaving(@, model_id, saved),
                   !.config = IF saved THEN Some(model_id) ELSE @,
                   !.tasks = IF saved THEN @ \cup {[n |-> llm.call.n, model_id |-> model_id]}
                             ELSE @,
                   !.call.pc = "returned",
                   !.call.result = IF saved THEN "Ok" ELSE "Err",
                   !.call.error = IF saved THEN "" ELSE "failed to save config"]
    /\ UNCHANGED notLlm

\* local_llm_setup.rs:438-519: the download of a task ends and the task writes the status.
DownloadEnds ==
    /\ llm.pc = "live"
    /\ \E task \in llm.tasks, ok \in BOOLEAN :
         llm' = [llm EXCEPT
                   !.tasks = @ \ {task},
                   !.registered = IF ok THEN @ \cup {task.model_id} ELSE @,
                   !.status = StatusAfterDownload(task.model_id, ok)]
    /\ UNCHANGED notLlm

NextLlm == ConfigureCall \/ ConfigureLoads \/ DownloadEnds

SpecLlm == InitLlm /\ [][NextLlm]_vars

(***************************************************************************)
(* Properties of run_agent_loop                                            *)
(***************************************************************************)

IsTool(m) == m.role = "tool"

IsAssistant(m) == m.role = "assistant"

\* The tool messages of a history, in order.
ToolMsgsOf(msgs) == SelectSeq(msgs, IsTool)

\* The number of answers the run has received from the provider.
Answered(s) == IF s.pc = "await_complete" THEN s.complete_calls - 1 ELSE s.complete_calls

\* The tool calls of one answer of the provider.
CallsOf(a) == IF a.ok THEN a.resp.tool_calls ELSE <<>>

RECURSIVE FlatCalls(_, _)
\* The tool calls of the provider's first n answers, in order.
FlatCalls(sc, n) ==
    IF n = 0 THEN <<>> ELSE FlatCalls(sc, n - 1) \o CallsOf(ProviderAnswer(sc, n))

\* Every tool message answers a call of the nearest assistant message before it,
\* and each assistant message is followed by one tool message per call, in order.
LinkedHistory(msgs) ==
    /\ \A a \in 1..Len(msgs) : IsAssistant(msgs[a]) =>
         LET n == Len(msgs[a].tool_calls) IN
         /\ a + n <= Len(msgs)
         /\ \A k \in 1..n :
              /\ IsTool(msgs[a + k])
              /\ msgs[a + k].tool_call_id = msgs[a].tool_calls[k].id
         /\ a + n < Len(msgs) => ~IsTool(msgs[a + n + 1])
    /\ \A j \in 1..Len(msgs) : IsTool(msgs[j]) =>
         \E a \in 1..(j - 1) :
            /\ IsAssistant(msgs[a])
            /\ \A i \in (a + 1)..(j - 1) : IsTool(msgs[i])
            /\ j - a <= Len(msgs[a].tool_calls)
            /\ msgs[j].tool_call_id = msgs[a].tool_calls[j - a].id

(* C1: in every history passed to provider.complete each tool message's     *)
(* tool_call_id is the id of a call of the nearest assistant message before *)
(* it, and an assistant message is followed by exactly one tool message    *)
(* per tool call, in the order of its tool_calls.                          *)
C1_HistoryLinked ==
    run.pc = "await_complete" => LinkedHistory(run.messages)

\* A second call of the provider whose history answers two calls with different ids.
C1_Witness ==
    /\ run.pc = "await_complete"
    /\ run.complete_calls = 2
    /\ Len(run.messages) = 5
    /\ run.messages[4].tool_call_id # run.messages[5].tool_call_id

\* Every answer of the provider asks for at least one tool.
AlwaysTools(sc) ==
    \A n \in 1..MAX_ITERATIONS :
        ProviderAnswer(sc, n).ok /\ ProviderAnswer(sc, n).resp.tool_calls # <<>>

(* C2: a run calls provider.complete at most MAX_ITERATIONS (25) times; if  *)
(* each of the 25 responses carries a tool call the run ends with the      *)
(* error 'agent loop exceeded max iterations', and there is neither a 26th *)
(* provider call nor an Iteration(26) event.                               *)
C2_IterationCap ==
    /\ run.complete_calls <= MAX_ITERATIONS
    /\ \A i \in 1..Len(run.events) :
         run.events[i].type = "Iteration" => run.events[i].n <= MAX_ITERATIONS
    /\ (AlwaysTools(script) /\ Terminated(run)) =>
         /\ run.result = ErrResult("agent loop exceeded max iterations")
         /\ run.complete_calls = MAX_ITERATIONS

C2_Witness ==
    /\ run.pc = "failed"
    /\ run.result = ErrResult("agent loop exceeded max iterations")
    /\ run.complete_calls = MAX_ITERATIONS
    /\ run.on_event

RECURSIVE CountCalls(_, _)
\* The number of tool-call requests in the provider's first n answers.
CountCalls(sc, n) ==
    IF n = 0 THEN 0 ELSE CountCalls(sc, n - 1) + Len(CallsOf(ProviderAnswer(sc, n)))

(* C4: when the provider returns a response without tool calls the run     *)
(* returns Ok with text = the response's text ("" when absent), iterations *)
(* = the number of provider.complete calls made, and tool_calls_made = the *)
(* number of tool-call requests in all earlier responses, whether they     *)
(* succeeded, failed or named an unknown tool.                             *)
C4_OkResult ==
    LET a == ProviderAnswer(script, run.complete_calls) IN
    /\ (run.pc # "await_complete" /\ run.complete_calls >= 1
           /\ a.ok /\ a.resp.tool_calls = <<>>) =>
         /\ run.pc = "returned"
         /\ run.result.status = "ok"
         /\ run.result.text = (IF a.resp.text = None THEN "" ELSE a.resp.text[1])
         /\ run.result.iterations = run.complete_calls
         /\ run.result.tool_calls_made = CountCalls(script, run.complete_calls - 1)
    /\ run.pc = "returned" => (a.ok /\ a.resp.tool_calls = <<>>)

\* A run that returns after a response with a failing and an unknown tool call.
C4_Witness ==
    /\ run.pc = "returned"
    /\ run.result.tool_calls_made = 2
    /\ run.result.iterations = 2
    /\ run.result.text = ""
    /\ Len(run.executed) = 1
    /\ run.executed[1].name = "fail_tool"

\* The run has ended the way its provider's answers call for.
EndedRight(s, sc) ==
    LET a == ProviderAnswer(sc, s.complete_calls) IN
    /\ Terminated(s)
    /\ s.complete_calls >= 1
    /\ \A n \in 1..(s.complete_calls - 1) : CallsOf(ProviderAnswer(sc, n)) # <<>>
    /\ \/ /\ s.pc = "returned"
          /\ s.result.status = "ok"
          /\ a.ok /\ a.resp.tool_calls = <<>>
       \/ /\ s.pc = "failed"
          /\ ~a.ok
          /\ s.result = ErrResult(a.err)
       \/ /\ s.pc = "failed"
          /\ s.result = ErrResult("agent loop exceeded max iterations")
          /\ s.complete_calls = MAX_ITERATIONS
          /\ CallsOf(a) # <<>>

(* C3: provided every provider.complete and tool.execute call returns, the  *)
(* run eventually returns: with a result at the first response without     *)
(* tool calls, with the provider's error, or with the iteration-limit      *)
(* error; it never loops forever.                                          *)
C3_Terminates == <>EndedRight(run, script)

\* A run that ended with a result after a turn that executed two tools.
C3_Witness ==
    /\ EndedRight(run, script)
    /\ run.pc = "returned"
    /\ run.complete_calls = 2
    /\ Len(run.executed) = 2

\* The call succeeds: its tool is registered and execute returns Ok.
Succeeds(c) == ToolsGet(c.name) /\ Execute(c.name, c.arguments).ok

IsToolCallEnd(e) == e.type = "ToolCallEnd"

IsToolCallStart(e) == e.type = "ToolCallStart"

IsIteration(e) == e.type = "Iteration"

(* C5: a tool call whose tool fails or is not registered never aborts the   *)
(* run: it gets a tool message with an {"error": ...} body and a           *)
(* ToolCallEnd with success = false, the remaining calls of the response   *)
(* are still executed and the provider is called again; a call that        *)
(* succeeds gets a {"result": ...} body and success = true.                *)
C5_ToolErrorsRecovered ==
    LET calls == FlatCalls(script, Answered(run))
        tm == ToolMsgsOf(run.messages)
        ends == SelectSeq(run.events, IsToolCallEnd)
    IN
    /\ Len(tm) <= Len(calls)
    /\ \A k \in 1..Len(tm) :
         /\ tm[k].tool_call_id = calls[k].id
         /\ DOMAIN tm[k].content.json_text =
              (IF Succeeds(calls[k]) THEN {"result"} ELSE {"error"})
    /\ run.on_event =>
         /\ Len(ends) = Len(tm)
         /\ \A k \in 1..Len(ends) :
              /\ ends[k].id = calls[k].id
              /\ ends[k].success = Succeeds(calls[k])
    /\ run.pc \in {"loop", "await_complete", "returned", "failed"} => Len(tm) = Len(calls)
    /\ run.pc = "failed" =>
         \/ run.result = ErrResult("agent loop exceeded max iterations")
         \/ ~ProviderAnswer(script, run.complete_calls).ok

\* The provider is called again after a turn whose first call failed and
\* whose second call succeeded.
C5_Witness ==
    LET tm == ToolMsgsOf(run.messages) IN
    /\ run.pc = "await_complete"
    /\ run.complete_calls = 2
    /\ Len(tm) = 2
    /\ DOMAIN tm[1].content.json_text = {"error"}
    /\ DOMAIN tm[2].content.json_text = {"result"}
    /\ Len(run.executed) = 2

(* C6: when provider.complete returns an error the run returns that error   *)
(* at once: no tool is executed, no message is appended and no further     *)
(* provider call is made in that run.                                      *)
C6_ProviderErrorFatal ==
    [][ /\ (run.pc = "await_complete" /\ ~ProviderAnswer(script, run.complete_calls).ok) =>
            /\ run'.pc = "failed"
            /\ run'.result = ErrResult(ProviderAnswer(script, run.complete_calls).err)
            /\ run'.messages = run.messages
            /\ run'.executed = run.executed
            /\ run'.complete_calls = run.complete_calls
        /\ run.pc = "failed" => run' = run ]_vars

\* The provider fails on the second call, after a turn that executed a tool.
C6_Witness ==
    /\ run.pc = "failed"
    /\ run.result = ErrResult("provider error")
    /\ run.complete_calls = 2
    /\ Len(run.executed) >= 1

(* C7: within one response tool executions are strictly sequential in      *)
(* request order: call j+1 starts only after the tool message of call j is *)
(* in the history, so at most one execution is in flight and the           *)
(* ToolCallStart/ToolCallEnd pairs of different calls never interleave.    *)
C7_Sequential ==
    LET msgs == run.messages
        ev == run.events
    IN
    /\ Len(run.executing) <= 1
    /\ run.pc # "await_execute" => run.executing = <<>>
    /\ run.pc \in {"await_execute", "tool_call"} =>
         LET a == Len(msgs) - (run.tc - 1) IN
         /\ IsAssistant(msgs[a])
         /\ \A k \in 1..(run.tc - 1) :
              /\ IsTool(msgs[a + k])
              /\ msgs[a + k].tool_call_id = run.response.tool_calls[k].id
    /\ run.pc = "await_execute" => run.executing = <<run.response.tool_calls[run.tc]>>
    /\ \A i \in 1..Len(ev) :
         /\ IsToolCallStart(ev[i]) =>
              IF i < Len(ev)
              THEN /\ IsToolCallEnd(ev[i + 1])
                   /\ ev[i + 1].id = ev[i].id
                   /\ ev[i + 1].name = ev[i].name
              ELSE run.pc = "await_execute"
         /\ IsToolCallEnd(ev[i]) => (i > 1 /\ IsToolCallStart(ev[i - 1]))

\* The second call of a response is executing after the first has been answered.
C7_Witness ==
    /\ run.pc = "await_execute"
    /\ run.tc = 2
    /\ Len(run.executed) = 2
    /\ run.on_event
    /\ IsTool(run.messages[Len(run.messages)])

(* C8: with an event sink the events of iteration n come in the order       *)
(* Iteration(n), Thinking, ThinkingDone, then for each tool call in request *)
(* order one ToolCallStart immediately followed by its ToolCallEnd with    *)
(* the same id and name; iteration numbers are 1, 2, 3, ... with none      *)
(* skipped or repeated.                                                    *)
C8_EventOrder ==
    LET ev == run.events
        calls == FlatCalls(script, Answered(run))
        starts == SelectSeq(ev, IsToolCallStart)
        IterationsBefore(i) == { j \in 1..(i - 1) : IsIteration(ev[j]) }
        StartsBefore(i) == { j \in 1..(i - 1) : IsToolCallStart(ev[j]) }
    IN
    run.on_event =>
      /\ Len(ev) >= 1 => ev[1] = EvIteration(1)
      /\ \A i \in 1..Len(ev) :
           /\ IsIteration(ev[i]) =>
                /\ ev[i].n = Cardinality(IterationsBefore(i)) + 1
                /\ i < Len(ev) /\ ev[i + 1] = EvThinking
                /\ i > 1 => IsToolCallEnd(ev[i - 1])
                /\ Cardinality(StartsBefore(i)) = CountCalls(script, ev[i].n - 1)
           /\ ev[i] = EvThinking =>
                /\ i > 1 /\ IsIteration(ev[i - 1])
                /\ i < Len(ev) => ev[i + 1] = EvThinkingDone
           /\ ev[i] = EvThinkingDone =>
                /\ i > 1 /\ ev[i - 1] = EvThinking
                /\ i < Len(ev) => IsToolCallStart(ev[i + 1])
           /\ IsToolCallStart(ev[i]) =>
                /\ i > 1 /\ (ev[i - 1] = EvThinkingDone \/ IsToolCallEnd(ev[i - 1]))
                /\ i < Len(ev) =>
                     ev[i + 1] \in { [type |-> "ToolCallEnd", id |-> ev[i].id,
                                      name |-> ev[i].name, success |-> b] : b \in BOOLEAN }
           /\ IsToolCallEnd(ev[i]) =>
                /\ i > 1 /\ IsToolCallStart(ev[i - 1])
                /\ i < Len(ev) => (IsToolCallStart(ev[i + 1]) \/ IsIteration(ev[i + 1]))
      /\ Len(starts) <= Len(calls)
      /\ \A k \in 1..Len(starts) :
           starts[k] = [type |-> "ToolCallStart", id |-> calls[k].id, name |-> calls[k].name]
      /\ Cardinality({ i \in 1..Len(ev) : IsIteration(ev[i]) }) = run.complete_calls

\* Iteration 2 has begun after an iteration with two different tool calls.
C8_Witness ==
    /\ run.on_event
    /\ Len(run.events) >= 9
    /\ IsToolCallStart(run.events[4])
    /\ IsToolCallStart(run.events[6])
    /\ run.events[4] # run.events[6]
    /\ run.events[8] = EvIteration(2)

\* What a run does apart from its notifications.
Core(s) ==
    [ pc |-> s.pc, messages |-> s.messages, iterations |-> s.iterations,
      total_tool_calls |-> s.total_tool_calls, response |-> s.response, tc |-> s.tc,
      complete_calls |-> s.complete_calls, executing |-> s.executing,
      executed |-> s.executed, result |-> s.result ]

(* C9: the event sink does not influence the run: against the same provider *)
(* responses and tool results, the run with a sink and the run with        *)
(* on_event = None make the same provider calls with the same histories,   *)
(* execute the same tools in the same order and return the same result or  *)
(* error.                                                                  *)
C9_SinkIndependent ==
    /\ run.on_event /\ ~shadow.on_event
    /\ Core(run) = Core(shadow)

\* Both runs have returned after two tool calls, and only the first notified.
C9_Witness ==
    /\ run.pc = "returned"
    /\ shadow.pc = "returned"
    /\ run.result.tool_calls_made = 2
    /\ Len(run.events) >= 9
    /\ shadow.events = <<>>

(***************************************************************************)
(* Properties of the SSE decoder                                           *)
(***************************************************************************)

\* The events of a stream that carry tool-call index i, in order.
EventsOf(out, i) ==
    LET OfIndex(e) == "index" \in DOMAIN e /\ e.index = i
    IN SelectSeq(out, OfIndex)

\* Start ArgDelta* Complete?, or nothing at all.
StartArgsComplete(q) ==
    \/ q = <<>>
    \/ /\ q[1].type = "ToolCallStart"
       /\ \A k \in 2..Len(q) :
            \/ q[k].type = "ToolCallArgumentsDelta"
            \/ q[k].type = "ToolCallComplete" /\ k = Len(q)

\* How many events of the type there are.
CountType(q, type) == Cardinality({k \in 1..Len(q) : q[k].type = type})

\* What one chunk asks of the decoder about tool calls, in the order it is handled.
InputSteps(doc) ==
    LET OfEntry(e) ==
            (IF e.id # None /\ e.name # None
             THEN <<[kind |-> "start", index |-> e.index]>> ELSE <<>>)
            \o (IF e.arguments # None
                THEN <<[kind |-> "args", index |-> e.index]>> ELSE <<>>)
        entries == doc.tool_calls
        \* a chunk of the model carries at most one entry
        steps == IF entries = <<>> THEN <<>> ELSE OfEntry(entries[1])
    IN steps \o (IF doc.finish_reason = Some("tool_calls")
                 THEN <<[kind |-> "finish", index |-> -1]>> ELSE <<>>)

RECURSIVE InputStepsOf(_)
InputStepsOf(docs) ==
    IF docs = <<>> THEN <<>> ELSE InputSteps(docs[1]) \o InputStepsOf(Tail(docs))

(* Well-formed input: every arguments fragment for an index arrives after  *)
(* the index was started and before any finish_reason = "tool_calls" chunk *)
(* that follows its start.                                                 *)
WellFormedInput(steps) ==
    \A p \in 1..Len(steps) :
        steps[p].kind = "args" =>
            /\ \E q \in 1..(p - 1) :
                 steps[q].kind = "start" /\ steps[q].index = steps[p].index
            /\ \A r \in 1..(p - 1) :
                 steps[r].kind = "finish" =>
                    \A q \in 1..(r - 1) :
                        ~(steps[q].kind = "start" /\ steps[q].index = steps[p].index)

\* The stream has had a finish_reason = "tool_calls" chunk and then [DONE].
FinishThenDone ==
    /\ \E k \in 1..Len(sse.seen) : sse.seen[k].finish_reason = Some("tool_calls")
    /\ sse.out # <<>>
    /\ sse.out[Len(sse.out)].type = "Done"

HasError(out) == \E k \in 1..Len(out) : out[k].type = "Error"

(* C11: on every stream that ends without an Error event, exactly one Done *)
(* event is emitted and it is the last event, carrying the usage           *)
(* accumulated from the usage chunks before it; nothing follows it.        *)
C11_DoneLastOnce ==
    sse.pc = "closed" /\ ~HasError(sse.out) =>
        /\ CountType(sse.out, "Done") = 1
        /\ sse.out[Len(sse.out)] = SseDone(sse.state.usage)

(* C12: when the response byte stream ends without a "data: [DONE]" line,  *)
(* the decoder still emits ToolCallComplete for every open tool call and   *)
(* then Done with the accumulated usage.                                   *)
C12_EofFinalizes ==
    [][BodyEnds => sse'.out = sse.out \o FinalizeStream(sse.state)]_vars

\* The lines of the body that have arrived whole.
Delivered ==
    IF server.pending = <<>> THEN server.lines
    ELSE SubSeq(server.lines, 1, Len(server.lines) - 1)

\* The function.arguments fragment a line of the body carries for index i.
FragmentOf(line, i) ==
    IF \E t \in DOMAIN JsonDocs : line = DataLine(<<t>>)
    THEN LET t == CHOOSE t \in DOMAIN JsonDocs : line = DataLine(<<t>>)
             e == JsonDocs[t].tool_calls
         IN IF e # <<>> /\ e[1].index = i /\ e[1].arguments # None
            THEN e[1].arguments[1] ELSE <<>>
    ELSE <<>>

RECURSIVE WireFragments(_, _)
\* The fragments for index i of the lines before "data: [DONE]", concatenated.
WireFragments(lines, i) ==
    IF lines = <<>> \/ lines[1] = DataLine(<<"[DONE]", "\r">>) THEN <<>>
    ELSE FragmentOf(lines[1], i) \o WireFragments(Tail(lines), i)

RECURSIVE ArgsOf(_, _)
\* The chunks of the ToolCallArgumentsDelta events of index i, concatenated.
ArgsOf(out, i) ==
    IF out = <<>> THEN <<>>
    ELSE (IF out[1].type = "ToolCallArgumentsDelta" /\ out[1].index = i
          THEN out[1].chunk ELSE <<>>) \o ArgsOf(Tail(out), i)

C14_ErrorIsLast ==
    HasError(sse.out) =>
        /\ CountType(sse.out, "Error") = 1
        /\ sse.out[Len(sse.out)].type = "Error"
        /\ sse.pc = "closed"

\* Reading the body fails while a started tool call is still open.
C14_Witness ==
    /\ HasError(sse.out)
    /\ sse.out[Len(sse.out)] = SseError("read failed")
    /\ \E k \in 1..Len(sse.state.tool_calls) : sse.state.tool_calls[k].open
    /\ CountType(sse.out, "ToolCallComplete") = 0

\* "data: {oops": a data line whose payload is not JSON.
Malformed == DataLine(<<"{oops">>)

\* The lines without the malformed ones.
WithoutMalformed(lines) ==
    LET Sound(line) == line # Malformed IN SelectSeq(lines, Sound)

(* What a body without malformed lines is to give, line by line: the       *)
(* events and the reassembly state after the line.                         *)
ExpectedAfterLine(line, acc) ==
    IF acc.closed THEN acc
    ELSE IF line = DataLine(<<"[DONE]", "\r">>)
    THEN [acc EXCEPT !.out = @ \o FinalizeStream(acc.state), !.closed = TRUE]
    ELSE IF \E t \in DOMAIN JsonDocs : line = DataLine(<<t>>)
    THEN LET t == CHOOSE t \in DOMAIN JsonDocs : line = DataLine(<<t>>)
             r == ProcessOpenAiSseLine(<<t>>, acc.state)
         IN [acc EXCEPT !.out = @ \o r.events, !.state = r.state]
    ELSE IF line = DataLine(<<"{content:'", "C3", "A9", "'}">>)
    THEN [acc EXCEPT !.out = Append(@, SseDelta(<<"e-acute">>))]
    ELSE acc

RECURSIVE Expected(_, _)
Expected(lines, acc) ==
    IF lines = <<>> THEN acc
    ELSE Expected(Tail(lines), ExpectedAfterLine(lines[1], acc))

\* The events with the text of every Delta left out.
Blur(out) ==
    [ k \in 1..Len(out) |-> IF out[k].type = "Delta" THEN SseDelta(<<>>) ELSE out[k] ]

\* The events before the Error, if there is one.
BeforeError(out) ==
    IF HasError(out) THEN SubSeq(out, 1, Len(out) - 1) ELSE out

(* C15: a data line whose payload is not valid JSON emits no event, leaves *)
(* the reassembly state and the usage as they are and does not end the     *)
(* stream: events and state are those of the same body without the         *)
(* malformed lines.                                                        *)
C15_MalformedSkipped ==
    sse.pc \in {"streaming", "closed"} =>
        LET e == Expected(WithoutMalformed(Delivered),
                          [out |-> <<>>, state |-> NoToolState, closed |-> FALSE])
        IN /\ Blur(BeforeError(sse.out)) = Blur(e.out)
           /\ sse.state = e.state

\* A malformed line between the start of a tool call and its arguments.
C15_Witness ==
    /\ sse.pc = "streaming"
    /\ Len(Delivered) = 3
    /\ Delivered[2] = Malformed
    /\ Len(sse.out) = 3
    /\ sse.out[1].type = "ToolCallStart"
    /\ sse.out[3] = SseArgumentsDelta(0, <<"a", "b">>)

(* C30: the events of stream_with_tools depend on the bytes of the body    *)
(* only, not on how they are cut into chunks: every chunking of a body,    *)
(* with cuts inside a line, inside "data: " or inside a character of more  *)
(* than one byte, gives the events of the body decoded line by line.       *)
C30_ChunkingIndependent ==
    sse.pc \in {"streaming", "closed"} =>
        BeforeError(sse.out) =
            Expected(Delivered, [out |-> <<>>, state |-> NoToolState, closed |-> FALSE]).out

(***************************************************************************)
(* Properties of the request bodies                                        *)
(***************************************************************************)

\* The name a schema of the registry gives its tool.
SchemaName(tool) ==
    IF "function" \in DOMAIN tool THEN tool.function.name ELSE tool.name

(* C16: in the body of complete, of stream_with_tools and of stream (which *)
(* passes no tools) the tools key is present exactly when the tool list is *)
(* not empty, and then has one entry per tool, in the same order, each in  *)
(* the { type: "function", function: {...} } envelope.                     *)
C16_ToolsKey ==
    req.pc = "posted" =>
        /\ "tools" \in DOMAIN req.body <=> req.tools # <<>>
        /\ "tools" \in DOMAIN req.body =>
             /\ Len(req.body.tools) = Len(req.tools)
             /\ \A k \in 1..Len(req.tools) :
                  /\ DOMAIN req.body.tools[k] = {"type", "function"}
                  /\ req.body.tools[k].type = "function"
                  /\ req.body.tools[k].function.name = SchemaName(req.tools[k])

\* complete is called with two different tools.
C16_Witness ==
    /\ req.pc = "posted"
    /\ req.call = "complete"
    /\ Len(req.tools) = 2
    /\ SchemaName(req.tools[1]) = "exec"
    /\ req.body.tools[2].function.name = "create_skill"

\* The provider is of the moonshot family.
MoonshotFamily(p) ==
    \/ [ k \in 1..Len(p.provider_name) |-> ToAsciiLowercase(p.provider_name[k]) ] = Moonshot
    \/ \E k \in 1..(Len(p.base_url) - 2) :
         /\ p.base_url[k] = "moonshot"
         /\ p.base_url[k + 1] = "."
         /\ p.base_url[k + 2] \in {"ai", "cn"}

\* The text of a message, "" when it has none.
ContentOrEmpty(m) == IF m.content = None THEN "" ELSE m.content[1]

(* C17: for a provider of the moonshot family, exactly the assistant       *)
(* messages with a non-empty tool_calls array get a string                 *)
(* reasoning_content, a copy of the content ("" and content "" when there  *)
(* is none); any other message, and every message of any other provider,   *)
(* is serialized unchanged; length and order of the list are kept; on the  *)
(* streaming and on the non-streaming path.                                *)
C17_ReasoningContent ==
    req.pc = "posted" =>
        /\ Len(req.body.messages) = Len(req.messages)
        /\ \A k \in 1..Len(req.messages) :
             LET m == req.messages[k]
                 v == ToOpenAiValue(m)
                 w == req.body.messages[k]
             IN IF /\ MoonshotFamily(req.provider)
                   /\ m.role = "assistant"
                   /\ m.tool_calls # <<>>
                THEN /\ DOMAIN w = DOMAIN v \cup {"content", "reasoning_content"}
                     /\ w.reasoning_content = ContentOrEmpty(m)
                     /\ w.content = ContentOrEmpty(m)
                     /\ \A key \in DOMAIN v : w[key] = v[key]
                ELSE w = v

(* A provider named "Moonshot" at another host streams a history of an     *)
(* assistant message with tool calls and no text, and its tool result.     *)
C17_Witness ==
    /\ req.pc = "posted"
    /\ req.call = "stream_with_tools"
    /\ req.provider.provider_name[1] = "M"
    /\ ~Contains(req.provider.base_url, <<"moonshot">>)
    /\ Len(req.messages) = 2
    /\ req.messages[1].role = "assistant"
    /\ req.messages[1].content = None
    /\ req.messages[2].role = "tool"
    /\ req.body.messages[1].reasoning_content = ""
    /\ "reasoning_content" \notin DOMAIN req.body.messages[2]

(***************************************************************************)
(* Properties of SandboxRouter                                             *)
(***************************************************************************)

RECURSIVE LastCall(_, _, _)
(* The last of the calls that is one of the operations on the session key  *)
(* (on any key when key = <<>>), or none.                                  *)
LastCall(calls, ops, key) ==
    IF calls = <<>> THEN None
    ELSE LET c == calls[Len(calls)] IN
         IF c.op \in ops /\ c.key = key THEN Some(c)
         ELSE LastCall(SubSeq(calls, 1, Len(calls) - 1), ops, key)

\* What the global mode alone says of a session.
ByMode(mode, session_key) ==
    \/ mode = "All"
    \/ mode = "NonMain" /\ session_key # <<"m", "a", "i", "n">>

(* C18: after any sequence of set_override and remove_override calls,      *)
(* is_sandboxed(k) is the value of the latest set_override(k, v) that no   *)
(* remove_override(k) followed, and without one what the mode says: true   *)
(* for All, for NonMain when k is not "main", false for Off.  Calls on     *)
(* other keys do not count.                                                *)
C18_IsSandboxed ==
    (router.pc = "built" /\ router.answer.op = "is_sandboxed") =>
        LET k == router.answer.key
            last == LastCall(router.calls, {"set_override", "remove_override"}, k)
        IN router.answer.value =
             IF last # None /\ last[1].op = "set_override"
             THEN last[1].value[1]
             ELSE ByMode(router.config.mode, k)

(* In mode NonMain "main" was switched on, then off by removing the        *)
(* override, while the other session was switched off in between.          *)
C18_Witness ==
    /\ router.pc = "built"
    /\ router.config.mode = "NonMain"
    /\ Len(router.calls) = 3
    /\ router.calls[1].op = "set_override"
    /\ router.calls[1].key = Main
    /\ router.calls[1].value = Some(TRUE)
    /\ router.calls[2].op = "set_override"
    /\ router.calls[2].key # Main
    /\ router.calls[3].op = "remove_override"
    /\ router.calls[3].key = Main
    /\ router.answer.op = "is_sandboxed"
    /\ router.answer.key = Main
    /\ router.answer.value = FALSE

(* C19: resolve_image(k, s) is the skill image s when one is given; else   *)
(* the per-session image override of k if there is one; else the runtime   *)
(* global image if it is set; else config.image if configured; else        *)
(* DEFAULT_SANDBOX_IMAGE.                                                  *)
C19_ResolveImage ==
    (router.pc = "built" /\ router.answer.op = "resolve_image") =>
        LET k == router.answer.key
            session == LastCall(router.calls,
                                {"set_image_override", "remove_image_override"}, k)
            global == LastCall(router.calls, {"set_global_image"}, <<>>)
        IN router.answer.value =
             IF router.answer.skill # None THEN router.answer.skill[1]
             ELSE IF session # None /\ session[1].op = "set_image_override"
             THEN session[1].value[1]
             ELSE IF global # None /\ global[1].value # None
             THEN global[1].value[1]
             ELSE IF router.config.image # None THEN router.config.image[1]
             ELSE "ubuntu:25.10"

(* With an image configured and the runtime global image set, a session    *)
(* whose image override was set and removed again gets the global image.   *)
C19_Witness ==
    /\ router.pc = "built"
    /\ router.config.image # None
    /\ Len(router.calls) = 3
    /\ router.calls[1].op = "set_image_override"
    /\ router.calls[2].op = "set_global_image"
    /\ router.calls[2].value # None
    /\ router.calls[3].op = "remove_image_override"
    /\ router.calls[3].key = router.calls[1].key
    /\ router.answer.op = "resolve_image"
    /\ router.answer.key = router.calls[1].key
    /\ router.answer.skill = None
    /\ router.answer.value = "global:v2"

\* The characters of [A-Za-z0-9._-] among those of the keys.
AllowedChars == {"m", "a", "i", "n", "s", "1", "Z", "9", ".", "_", "-"}

(* C20: the key of sandbox_id_for(k) has only characters of [A-Za-z0-9._-] *)
(* and as many as k, keeps every allowed character of k in place and has   *)
(* '-' for every other; sanitizing it again changes nothing; the scope is  *)
(* config.scope.                                                           *)
C20_SandboxIdFor ==
    (router.pc = "built" /\ router.answer.op = "sandbox_id_for") =>
        LET k == router.answer.key
            id == router.answer.value
        IN /\ Len(id.key) = Len(k)
           /\ \A j \in 1..Len(k) :
                /\ id.key[j] \in AllowedChars
                /\ id.key[j] = IF k[j] \in AllowedChars THEN k[j] ELSE "-"
           /\ SandboxIdFor(router, id.key).key = id.key
           /\ id.scope = router.config.scope

\* An id for a key with allowed and with replaced characters, in scope Shared.
C20_Witness ==
    /\ router.pc = "built"
    /\ router.answer.op = "sandbox_id_for"
    /\ router.answer.value =
         [scope |-> "Shared", key |-> <<"Z", "9", "_", ".", "-", "-", "-", "-">>]

(***************************************************************************)
(* Properties of resolve_image beside the writers                          *)
(***************************************************************************)

\* The maps of images after one more call of a writer.
ImagesAfter(st, call) ==
    CASE call.op = "set_image_override" ->
           [st EXCEPT !.image_overrides = MapInsert(@, call.key, call.value[1])]
      [] call.op = "remove_image_override" ->
           [st EXCEPT !.image_overrides = MapRemove(@, call.key)]
      [] call.op = "set_global_image" ->
           [st EXCEPT !.global_image_override = call.value]
      [] OTHER -> st

\* The states of the maps from st on, through the calls i..to of the writers.
RECURSIVE ImagesThrough(_, _, _)
ImagesThrough(st, i, to) ==
    IF i > to THEN {st}
    ELSE {st} \cup ImagesThrough(ImagesAfter(st, router.calls[i]), i + 1, to)

\* The states of the maps that there were while the call of resolve_image ran.
ImagesDuring == ImagesThrough(router.resolve.before, router.resolve.from + 1, router.resolve.to)

\* resolve_image(k, None) has returned.
ResolvedNoSkill == router.resolve.pc = "returned" /\ router.resolve.skill = None

(* C36: resolve_image(k, None) reads image_overrides and the global image  *)
(* under two lock acquisitions: what it returns is the override of k in a  *)
(* state of the call or the default image of a state of the call, and it   *)
(* is the answer of the router's state when no writer ran during the call; *)
(* it need not be the answer of any one state that there was.              *)
C36_ResolveTwoReads ==
    ResolvedNoSkill =>
        /\ \E st \in ImagesDuring :
              \/ MapGet(st.image_overrides, router.resolve.key) = Some(router.resolve.value)
              \/ /\ MapGet(router.resolve.before.image_overrides, router.resolve.key) = None
                 /\ DefaultImage(st) = router.resolve.value
        /\ router.resolve.from = router.resolve.to =>
              router.resolve.value
                 = ResolveImage(router.resolve.before, router.resolve.key, None)

(* set_image_override(k, X) and then set_global_image(G) ran between the   *)
(* two reads: G is returned, and in no state of the call was G the answer. *)
C36_Witness ==
    /\ ResolvedNoSkill
    /\ router.resolve.to = router.resolve.from + 2
    /\ router.calls[router.resolve.from + 1].op = "set_image_override"
    /\ router.calls[router.resolve.from + 1].key = router.resolve.key
    /\ router.calls[router.resolve.to].op = "set_global_image"
    /\ router.calls[router.resolve.to].value = Some(router.resolve.value)
    /\ \A st \in ImagesDuring :
          ResolveImage(st, router.resolve.key, None) # router.resolve.value

(***************************************************************************)
(* Properties of cleanup_session                                           *)
(***************************************************************************)

\* The step on which cleanup_session returns Ok(()).
CleanupReturnsOk ==
    /\ backend.pc = "ready"
    /\ backend.cleanup.pc = "remove"
    /\ backend'.cleanup.pc = "returned"
    /\ backend'.cleanup.result = "Ok"

(* C21: cleanup_session(k) calls backend.cleanup with the sandbox id of k  *)
(* and removes the on/off override of k: when it returns Ok, k has no      *)
(* override, is_sandboxed(k) is what the mode alone says, and the          *)
(* overrides of the other sessions are as they were.                       *)
C21_CleanupSession ==
    [][CleanupReturnsOk =>
         LET k == backend.cleanup.key IN
         /\ backend.cleanup.id = SandboxIdFor(router, k)
         /\ k \notin DOMAIN router'.overrides
         /\ IsSandboxed(router', k) = ByMode(router'.config.mode, k)
         /\ \A j \in SessionKeys \ {k} :
              MapGet(router'.overrides, j) = MapGet(router.overrides, j)]_vars

\* cleanup_session(k) has returned Ok where k and another session had overrides.
C21_Witness ==
    /\ backend.pc = "ready"
    /\ backend.cleanup.pc = "returned"
    /\ backend.cleanup.result = "Ok"
    /\ Len(router.calls) = 3
    /\ router.calls[3].op = "cleanup_session"
    /\ backend.cleanup.key \in DOMAIN backend.cleanup.before.overrides
    /\ backend.cleanup.key \notin DOMAIN router.overrides
    /\ \E j \in SessionKeys \ {backend.cleanup.key} :
         /\ j \in DOMAIN router.overrides
         /\ IsSandboxed(router, j) # ByMode(router.config.mode, j)

\* The call that has returned is the second of two cleanup_session(k) in a row.
SecondCleanup ==
    /\ backend.pc = "ready"
    /\ backend.cleanup.pc = "returned"
    /\ LET before == backend.cleanup.before.calls
           k == backend.cleanup.key IN
       /\ Len(before) > 0
       /\ before[Len(before)].op = "cleanup_session"
       /\ before[Len(before)].key = k
       /\ Len(router.calls) = Len(before) + 1
       /\ router.calls[Len(router.calls)].op = "cleanup_session"
       /\ router.calls[Len(router.calls)].key = k

(* C22: cleanup_session is idempotent: a second cleanup_session(k), with   *)
(* or without a container left, returns Ok and leaves the override maps    *)
(* and the containers as they were after the first.                        *)
C22_CleanupIdempotent ==
    SecondCleanup =>
        /\ backend.cleanup.result = "Ok"
        /\ router.overrides = backend.cleanup.before.overrides
        /\ router.image_overrides = backend.cleanup.before.image_overrides
        /\ backend.containers = backend.cleanup.before.containers

\* The second cleanup_session(k) has returned after the first removed a container and an override.
C22_Witness ==
    /\ SecondCleanup
    /\ backend.kind = "docker"
    /\ backend.cli_works
    /\ backend.containers # ContainerKeys
    /\ Len(router.calls) = 3
    /\ router.calls[1].op = "set_override"
    /\ router.calls[1].key = backend.cleanup.key

(***************************************************************************)
(* Properties of ensure_ready                                              *)
(***************************************************************************)

\* This step is the call of ensure_ready by task t, up to its docker inspect.
EnsureCalled(t) ==
    /\ backend'.ensured = backend.ensured + 1
    /\ backend'.ensure[t].pc # "idle"
    /\ backend'.ensure[t].n = backend'.ensured

\* This step is the docker run of the call of task t.
EnsureRuns(t) ==
    /\ backend.ensure[t].pc = "run"
    /\ backend'.ensure[t].pc = "returned"

\* The containers and their images are as before the step.
NothingStarted ==
    /\ backend'.containers = backend.containers
    /\ backend'.images = backend.images

\* The image the call is to start: the one asked for, else the configured or default one.
ImageWanted(call) ==
    IF call.image_override # None THEN call.image_override[1]
    ELSE IF router.config.image # None THEN router.config.image[1]
    ELSE "ubuntu:25.10"

C35_CheckThenStart ==
    [][\A t \in EnsureTasks :
         EnsureRuns(t) =>
            /\ ~backend.ensure[t].observed
            /\ (backend.cli_works /\ backend.ensure[t].id.key \in backend.containers) =>
                  /\ backend'.ensure[t].result = "Err: docker run failed"
                  /\ NothingStarted
            /\ backend'.ensure[t].result = "Ok" =>
                  /\ backend.ensure[t].id.key \notin backend.containers
                  /\ backend.ensure[t].id.key \in backend'.containers
      ]_vars

(* Two calls for one id have both seen no running container and both      *)
(* issued a start: one has returned Ok, the other the error, and the       *)
(* container is running.                                                   *)
C35_Witness ==
    \E t, u \in EnsureTasks :
        /\ t # u
        /\ backend.cleanup.pc = "idle"
        /\ backend.cli_works
        /\ backend.ensure[t].pc = "returned" /\ backend.ensure[u].pc = "returned"
        /\ ~backend.ensure[t].observed /\ ~backend.ensure[u].observed
        /\ backend.ensure[t].id = backend.ensure[u].id
        /\ backend.ensure[t].result = "Ok"
        /\ backend.ensure[u].result = "Err: docker run failed"
        /\ backend.ensure[t].id.key \in backend.containers

(***************************************************************************)
(* Properties of the ids of sessions                                       *)
(***************************************************************************)

\* This step is a call for session k that writes a map of overrides.
WritesOverrideOf(k) ==
    /\ Len(router'.calls) = Len(router.calls) + 1
    /\ router'.calls[Len(router'.calls)].op \in
          {"set_override", "set_image_override", "cleanup_session"}
    /\ router'.calls[Len(router'.calls)].key = k

\* This step is the backend.cleanup of cleanup_session(k).
CleansUp(k) ==
    /\ backend.cleanup.pc = "backend"
    /\ backend'.cleanup.pc # "backend"
    /\ backend.cleanup.key = k

(* C37: sandbox_id_for is not injective: session keys of one length that   *)
(* differ in characters outside [A-Za-z0-9._-] get one SandboxId, hence    *)
(* one container name, while the sandbox override and the image override   *)
(* of a session stay under its own key: a call for one session leaves the  *)
(* overrides of the other as they are, and the cleanup of one session      *)
(* removes the container of the id of the other.                           *)
C37_IdsCollide ==
    [][\A k \in router.keys : \A j \in router.keys \ {k} :
         /\ SandboxIdFor(router, j) = SandboxIdFor(router, k)
         /\ WritesOverrideOf(k) =>
              /\ MapGet(router'.overrides, j) = MapGet(router.overrides, j)
              /\ MapGet(router'.image_overrides, j) = MapGet(router.image_overrides, j)
         /\ (CleansUp(k) /\ backend.cli_works) =>
              SandboxIdFor(router, j).key \notin backend'.containers
      ]_vars

(* cleanup_session of one session has returned and the container is gone,  *)
(* while the other session, whose id it was as well, is still sandboxed by *)
(* its override and still has its image.                                   *)
C37_Witness ==
    /\ backend.cleanup.pc = "returned"
    /\ backend.cleanup.result = "Ok"
    /\ \E j \in router.keys \ {backend.cleanup.key} :
         /\ j # backend.cleanup.key
         /\ Len(j) = Len(backend.cleanup.key)
         /\ SandboxIdFor(router, j).key \in backend.cleanup.before.containers
         /\ SandboxIdFor(router, j).key \notin backend.containers
         /\ MapGet(router.overrides, j) = Some(TRUE)
         /\ MapGet(router.image_overrides, j) # None

(***************************************************************************)
(* Properties of the backend selection                                     *)
(***************************************************************************)

\* The backend the configuration names, on a host.
NamedBackend(config, host) ==
    CASE config.backend = "docker" -> Some("docker")
      [] config.backend = "apple-container" -> Some("apple-container")
      [] config.backend = "auto" ->
           IF host.container_cli THEN Some("apple-container")
           ELSE IF host.docker_cli THEN Some("docker")
           ELSE Some("none")
      [] OTHER -> None

(* C28: SandboxRouter::new chooses the backend from config.backend and the *)
(* CLIs of the host, never from the mode: "docker" gives Docker and        *)
(* "apple-container" gives Apple Container whether or not its CLI is       *)
(* there; "auto" gives Apple Container when its CLI is there, else Docker  *)
(* when it is there, else the direct backend; and it stays the backend.    *)
C28_BackendFromConfig ==
    (router.pc = "built" /\ backend.pc = "ready") =>
        \/ NamedBackend(router.config, backend.host) = None
        \/ NamedBackend(router.config, backend.host) = Some(backend.kind)

(***************************************************************************)
(* Properties of exec                                                      *)
(***************************************************************************)

\* What holds of every exec that has ended on the value of the timeout future.
ExecEndedRight ==
    (backend.pc = "ready" /\ backend.exec.pc = "ended") =>
        LET race == backend.exec.race
            result == backend.exec.result IN
        /\ race.kind = "Err(Elapsed)" =>
             /\ result.kind = "Err"
             /\ result.error = <<"exec timed out after ", backend.exec.opts.timeout, "s">>
        /\ (race.kind = "Ok(Ok)" /\ result.kind = "ExecResult") =>
             result.exit_code = IF race.status = None THEN -1 ELSE race.status[1]
        /\ result.kind = "ExecResult" => race.kind = "Ok(Ok)"

\* An exec is waiting for its command.
ExecWaiting == backend.pc = "ready" /\ backend.exec.pc = "waiting"

C32_CleanupRemovesImage ==
    (/\ backend.pc = "ready"
     /\ backend.cleanup.pc = "returned"
     /\ Len(router.calls) > 0
     /\ router.calls[Len(router.calls)].op = "cleanup_session")
    => ResolveImage(router, backend.cleanup.key, None) = DefaultImage(router)

\* The command of an exec has finished in time: the exec has ended on its output.
ExecFinished ==
    /\ backend.pc = "ready"
    /\ backend.exec.pc = "ended"
    /\ backend.exec.race.kind = "Ok(Ok)"

\* The string of an output is as it was, or its first max bytes and the marker.
CappedAs(str, bytes, max) ==
    LET whole == FromUtf8Lossy(bytes) IN
    IF StrLen(whole) <= max THEN str = whole
    ELSE /\ Len(str) > 0
         /\ str[Len(str)] = TRUNCATED
         /\ StrLen(SubSeq(str, 1, Len(str) - 1)) = max
         /\ \A k \in 1..(Len(str) - 1) : k <= Len(whole) /\ str[k] = whole[k]

(* C31: stdout and stderr, each on its own, are returned as they are when  *)
(* no longer than max_output_bytes and else cut to their first             *)
(* max_output_bytes bytes followed by "\n... [output truncated]", whatever *)
(* the output is, also when byte max_output_bytes falls inside a character *)
(* of more than one byte; exec never fails or aborts on what was printed.  *)
C31_OutputCapped ==
    ExecFinished =>
        /\ backend.exec.result.kind = "ExecResult"
        /\ CappedAs(backend.exec.result.stdout, backend.exec.race.stdout,
                    backend.exec.opts.max_output_bytes)
        /\ CappedAs(backend.exec.result.stderr, backend.exec.race.stderr,
                    backend.exec.opts.max_output_bytes)

(***************************************************************************)
(* Properties of the share store                                           *)
(***************************************************************************)

\* The shares of a session that are not revoked.
ActiveShares(rows, session_key) ==
    { r \in rows : r.session_key = session_key /\ r.revoked_at = None }

\* No session has two shares with revoked_at unset.
OneActivePerSession ==
    store.pc = "open" =>
        \A k \in ShareKeys : Cardinality(ActiveShares(store.rows, k)) <= 1

\* The step on which the create_or_replace of a task commits.
CreateCommits(t) ==
    /\ store.pc = "open"
    /\ store.tasks[t].pc = "inserted"
    /\ store'.tasks[t].pc = "committed"

\* What the table holds when create_or_replace has committed.
CreatedAndReplaced(t) ==
    LET c == store.tasks[t] IN
    /\ \A r \in store.rows : r.id # c.id
    /\ \E r \in store'.rows :
         r.id = c.id /\ r.session_key = c.session_key /\ r.views = 0 /\ r.revoked_at = None
    /\ ActiveShares(store'.rows, c.session_key) =
         { r \in store'.rows : r.id = c.id }
    /\ \A r \in store.rows :
         r.session_key = c.session_key =>
            \E r2 \in store'.rows : r2.id = r.id /\ r2.revoked_at # None

(* C24: after any calls of create_or_replace and revoke, concurrent        *)
(* create_or_replace of one session included, no session has more than    *)
(* one share with revoked_at unset; and when a create_or_replace(s) has    *)
(* committed, every earlier share of s is revoked and the new share is the *)
(* active one, with an id no row had and views = 0.                        *)
C24_OneActiveShare ==
    /\ []OneActivePerSession
    /\ [][\A t \in Tasks : CreateCommits(t) => CreatedAndReplaced(t)]_vars

(* Two create_or_replace of one session ran together: the first returned   *)
(* its share after the second had committed and revoked it.                *)
C24_Witness ==
    /\ store.pc = "open"
    /\ \E t \in Tasks, u \in Tasks :
         /\ t # u
         /\ store.tasks[t].pc = "returned"
         /\ store.tasks[t].op = "create_or_replace"
         /\ store.tasks[t].result[1].kind = "Ok"
         /\ store.tasks[t].result[1].share.revoked_at # None
         /\ store.tasks[u].pc = "committed"
         /\ store.tasks[u].session_key = store.tasks[t].session_key
         /\ Cardinality(ActiveShares(store.rows, store.tasks[t].session_key)) = 1

\* The step on which the UPDATE of an increment_views of a task runs.
IncrementUpdates(t) ==
    /\ store.pc = "open"
    /\ store.tasks[t].pc # "select"
    /\ store'.tasks[t].pc = "select"

\* The views of the row of an id, 0 - 1 without the row.
ViewsOf(rows, id) == IF RowById(rows, id) = None THEN 0 - 1 ELSE RowById(rows, id)[1].views

\* The UPDATE raises the views of the active share of the id by one and no other.
CountsActiveOnly(t) ==
    LET id == store'.tasks[t].id IN
    /\ { r.id : r \in store'.rows } = { r.id : r \in store.rows }
    /\ \A r \in store.rows :
         ViewsOf(store'.rows, r.id) =
            IF r.id = id /\ r.revoked_at = None THEN r.views + 1 ELSE r.views

\* The step on which an increment_views of a task returns Ok.
IncrementReturns(t) ==
    /\ store.pc = "open"
    /\ store.tasks[t].pc = "select"
    /\ store'.tasks[t].pc = "returned"
    /\ store'.tasks[t].result[1].kind = "Ok"

\* The count returned is the one of the table; with no call in between it is the one the UPDATE left.
ReturnsCount(t) ==
    LET c == store.tasks[t]
        value == store'.tasks[t].result[1].value IN
    /\ value = ViewsOf(store.rows, c.id)
    /\ value >= ViewsOf(c.after, c.id)
    /\ store.rows = c.after =>
         \A r \in c.before :
            r.id = c.id => value = IF r.revoked_at = None THEN r.views + 1 ELSE r.views

\* No step lowers the views of a share or drops a share.
ViewsNeverDecrease ==
    store.pc = "open" =>
        \A r \in store.rows : ViewsOf(store'.rows, r.id) >= r.views

(* C25: increment_views counts active shares only: on an active share it   *)
(* raises views by exactly 1 and returns the new count, on a revoked share *)
(* it leaves views as they are and returns them; the views of a share      *)
(* never decrease and the views of no other share change.                  *)
C25_IncrementViews ==
    [][/\ ViewsNeverDecrease
       /\ \A t \in Tasks :
            /\ IncrementUpdates(t) => CountsActiveOnly(t)
            /\ IncrementReturns(t) => ReturnsCount(t)]_vars

\* increment_views has returned the count 1 of a revoked share and left it.
C25_Witness ==
    /\ store.pc = "open"
    /\ \E t \in Tasks :
         /\ store.tasks[t].pc = "returned"
         /\ store.tasks[t].op = "increment_views"
         /\ store.tasks[t].result[1].kind = "Ok"
         /\ store.tasks[t].result[1].value = 1
         /\ store.tasks[t].before = store.tasks[t].after
         /\ \E r \in store.rows : r.id = store.tasks[t].id /\ r.revoked_at # None

\* The step on which a task calls revoke, which returns at once.
Revokes(t) ==
    /\ store.pc = "open"
    /\ store'.calls = store.calls + 1
    /\ store'.tasks[t] # store.tasks[t]
    /\ store'.tasks[t].op = "revoke"

\* revoke answers true and revokes exactly when the share of the id is there and active.
RevokedIfActive(t) ==
    LET id == store'.tasks[t].id
        hit == { r \in store.rows : r.id = id /\ r.revoked_at = None } IN
    /\ store'.tasks[t].result[1].kind = "Ok"
    /\ store'.tasks[t].result[1].value = (hit # {})
    /\ hit = {} => store'.rows = store.rows
    /\ hit # {} =>
         /\ store.rows \ hit = store'.rows \ { r \in store'.rows : r.id = id }
         /\ \E r \in store'.rows :
              r.id = id /\ r.revoked_at # None /\ r.views = ViewsOf(store.rows, id)

\* A step leaves the revoked_at that is set as it is.
RevokedForGood ==
    store.pc = "open" =>
        \A r \in store.rows :
            r.revoked_at # None =>
                \E r2 \in store'.rows : r2.id = r.id /\ r2.revoked_at = r.revoked_at

\* The step on which get_active_by_id returns.
GetsActive(t) ==
    /\ store.pc = "open"
    /\ store'.calls = store.calls + 1
    /\ store'.tasks[t] # store.tasks[t]
    /\ store'.tasks[t].op = "get_active_by_id"

(* C33: revoke(id) returns true and sets revoked_at exactly when the share *)
(* is there and active, and else returns false and changes nothing; a      *)
(* revoked_at that is set is never cleared or changed by any call, and     *)
(* get_active_by_id never returns a revoked share.                         *)
C33_Revoke ==
    [][/\ RevokedForGood
       /\ \A t \in Tasks :
            /\ Revokes(t) => RevokedIfActive(t)
            /\ GetsActive(t) =>
                 \A r \in store.rows :
                    (r.id = store'.tasks[t].id /\ r.revoked_at # None)
                        => store'.tasks[t].result[1].value = None]_vars

\* A second revoke of a share has returned false and left the first revoked_at.
C33_Witness ==
    /\ store.pc = "open"
    /\ \E t \in Tasks :
         /\ store.tasks[t].pc = "returned"
         /\ store.tasks[t].op = "revoke"
         /\ store.tasks[t].result[1].value = FALSE
         /\ \E r \in store.rows :
              /\ r.id = store.tasks[t].id
              /\ r.revoked_at # None
              /\ r.revoked_at[1] < store.tasks[t].now

(***************************************************************************)
(* Properties of poll_for_token                                            *)
(***************************************************************************)

\* The reply asks to poll again.
AsksToWait(reply) ==
    /\ reply.kind = "body"
    /\ reply.body.access_token = None
    /\ reply.body.error \in {Some("authorization_pending"), Some("slow_down")}

\* What poll_for_token returns on a reply that does not ask to wait.
Returned(reply) ==
    IF reply.kind # "body" THEN "Err"
    ELSE IF reply.body.access_token # None THEN "Ok"
    ELSE IF reply.body.error # None THEN "device flow error"
    ELSE "unexpected response"

(* C26: poll_for_token returns Ok with the access_token of a body that has *)
(* one, with refresh_token None, even when the body has an error field     *)
(* too; on "authorization_pending" and "slow_down" it polls again; on any  *)
(* other error it fails with "device flow error: <err>"; on a body with    *)
(* neither it fails with "unexpected response from token endpoint"; and    *)
(* once it has returned it polls no more.                                  *)
C26_PollForToken ==
    oauth.pc # "idle" =>
        LET n == Len(oauth.replies) IN
        /\ \A i \in 1..(n - 1) : AsksToWait(oauth.replies[i])
        /\ (oauth.pc # "returned" /\ n > 0) => AsksToWait(oauth.replies[n])
        /\ oauth.pc # "returned" => oauth.result = None
        /\ oauth.pc = "returned" =>
             LET last == oauth.replies[n]
                 result == oauth.result[1] IN
             /\ ~AsksToWait(last)
             /\ Returned(last) = "Ok" =>
                  /\ result.kind = "Ok"
                  /\ result.access_token = last.body.access_token[1]
                  /\ result.refresh_token = None
             /\ Returned(last) = "device flow error" =>
                  /\ result.kind = "Err"
                  /\ result.error = <<"device flow error: ", last.body.error[1]>>
             /\ Returned(last) = "unexpected response" =>
                  /\ result.kind = "Err"
                  /\ result.error = <<"unexpected response from token endpoint">>
             /\ Returned(last) = "Err" => result.kind = "Err"

\* After a slow_down and an authorization_pending, a body with a token and an error gave Ok.
C26_Witness ==
    /\ oauth.pc = "returned"
    /\ Len(oauth.replies) = 3
    /\ oauth.replies[1].body.error = Some("slow_down")
    /\ oauth.replies[2].body.error = Some("authorization_pending")
    /\ oauth.replies[3].kind = "body"
    /\ oauth.replies[3].body.access_token # None
    /\ oauth.replies[3].body.error = Some("access_denied")
    /\ oauth.result[1].kind = "Ok"

\* The slow_down replies among the first n.
RECURSIVE SlowDowns(_, _)
SlowDowns(replies, n) ==
    IF n = 0 THEN 0
    ELSE SlowDowns(replies, n - 1)
            + (IF replies[n].kind = "body" /\ replies[n].body.access_token = None
                  /\ replies[n].body.error = Some("slow_down")
               THEN 1 ELSE 0)

(* C39: poll_for_token has no bound on its polls and no expiry: as long as *)
(* every reply is authorization_pending or slow_down it has not returned,  *)
(* however many polls it has made, and it returns only on a reply that is  *)
(* something else.  Each poll waits the interval it was called with, and a *)
(* slow_down adds one wait of 5 seconds and leaves the interval of the     *)
(* later polls as it was.                                                  *)
C39_PollsWithoutEnd ==
    [][LET n == Len(oauth'.replies) IN
       /\ oauth'.interval = oauth.interval
       /\ (\A i \in 1..n : AsksToWait(oauth'.replies[i])) =>
             /\ oauth'.pc # "returned"
             /\ oauth'.result = None
       /\ (oauth.pc # "returned" /\ oauth'.pc = "returned") =>
             /\ n = Len(oauth.replies) + 1
             /\ ~AsksToWait(oauth'.replies[n])
       /\ oauth'.slept =
             oauth'.interval * (IF oauth'.pc = "send" THEN n + 1 ELSE n)
               + 5 * (IF oauth'.pc = "slow down" THEN SlowDowns(oauth'.replies, n) - 1
                      ELSE SlowDowns(oauth'.replies, n))
      ]_vars

(* Three polls have been answered by slow_down, authorization_pending and  *)
(* slow_down: the call waits for its fourth poll with the interval it was  *)
(* given.                                                                  *)
C39_Witness ==
    /\ oauth.pc = "sleep"
    /\ oauth.result = None
    /\ Len(oauth.replies) = 3
    /\ \A i \in 1..3 : AsksToWait(oauth.replies[i])
    /\ oauth.replies[1].body.error = Some("slow_down")
    /\ oauth.replies[2].body.error = Some("authorization_pending")
    /\ oauth.replies[3].body.error = Some("slow_down")
    /\ oauth.slept = 3 * oauth.interval + 10

(***************************************************************************)
(* Properties of the message history of run_agent_loop                     *)
(***************************************************************************)

(* C27: every message of the history that run_agent_loop builds and hands  *)
(* to the provider has a content field; the assistant message of a         *)
(* response with tool calls and no text has the content "".                *)
C27_EveryMessageHasContent ==
    \A i \in 1..Len(run.messages) :
        /\ "content" \in DOMAIN run.messages[i]
        /\ (run.messages[i].role = "assistant" /\ i = Len(run.messages)
              /\ run.pc = "tool_call" /\ run.tc = 1 /\ run.response.text = None)
             => run.messages[i].content = ""

\* What the claim says of one message: its role and the ids or the text it carries.
MessageKey(m) ==
    CASE m.role = "assistant" ->
           <<"assistant", [ i \in 1..Len(m.tool_calls) |-> m.tool_calls[i].id ]>>
      [] m.role = "tool" -> <<"tool", <<m.tool_call_id>>>>
      [] OTHER -> <<m.role, <<m.content>>>>

MessageKeys(messages) == [ i \in 1..Len(messages) |-> MessageKey(messages[i]) ]

RECURSIVE HistoryKeys(_, _)
\* The history of the n-th provider.complete call, from the answers before it.
HistoryKeys(sc, n) ==
    IF n <= 1
    THEN << <<"system", <<"You are a test bot.">>>>, <<"user", <<"Hi">>>> >>
    ELSE LET tcs == ProviderAnswer(sc, n - 1).resp.tool_calls IN
         HistoryKeys(sc, n - 1)
            \o << <<"assistant", [ i \in 1..Len(tcs) |-> tcs[i].id ]>> >>
            \o [ i \in 1..Len(tcs) |-> <<"tool", <<tcs[i].id>>>> ]

\* The history handed to the provider is the one the earlier answers give.
HistoryOfCall ==
    run.pc = "await_complete" =>
        MessageKeys(run.messages) = HistoryKeys(script, run.complete_calls)

\* A step leaves every message of the history where and as it was.
HistoryKept ==
    /\ Len(run'.messages) >= Len(run.messages)
    /\ SubSeq(run'.messages, 1, Len(run.messages)) = run.messages

(* C29: the history is append-only: it starts as [system, user]; the       *)
(* history of the (n+1)-th provider.complete call is the history of the    *)
(* n-th followed by one assistant message with the tool calls of the n-th  *)
(* response and one tool message for each of them, in their order; and no  *)
(* message is ever removed, moved or changed.                              *)
C29_AppendOnlyHistory == []HistoryOfCall /\ [][HistoryKept]_vars

\* The third provider.complete call is awaited, after a response with two tool calls and one with one.
C29_Witness ==
    /\ run.pc = "await_complete"
    /\ run.complete_calls = 3
    /\ Len(run.messages) = 7

(***************************************************************************)
(* Properties of the events of run_agent_loop                              *)
(***************************************************************************)

\* The number of the last Iteration event among the first i events.
RECURSIVE LastIteration(_, _)
LastIteration(ev, i) ==
    IF i = 0 THEN 0
    ELSE IF ev[i].type = "Iteration" THEN ev[i].n
    ELSE LastIteration(ev, i - 1)

(* C38: every Thinking event is followed at once by ThinkingDone, except   *)
(* when provider.complete fails: then the run ends with Thinking as its    *)
(* last event and no ThinkingDone.  When the iteration limit is exceeded   *)
(* the last event is the ToolCallEnd of iteration 25.                      *)
C38_ThinkingDone ==
    LET ev == run.events IN
    /\ \A i \in 1..Len(ev) :
         ev[i].type = "Thinking" =>
            IF i < Len(ev)
            THEN ev[i + 1].type = "ThinkingDone"
            ELSE \/ run.pc = "await_complete"
                 \/ /\ run.pc = "failed"
                    /\ ~ProviderAnswer(script, run.complete_calls).ok
    /\ (run.pc = "failed" /\ run.on_event /\ run.iterations <= 25) =>
            /\ ~ProviderAnswer(script, run.complete_calls).ok
            /\ ev[Len(ev)].type = "Thinking"
    /\ (run.pc = "failed" /\ run.on_event /\ run.iterations > 25) =>
            /\ run.result = ErrResult("agent loop exceeded max iterations")
            /\ ev[Len(ev)].type = "ToolCallEnd"
            /\ LastIteration(ev, Len(ev)) = 25

(* The provider has failed on its second call: the events end with the     *)
(* ThinkingDone and the tool call of the first iteration, Iteration(2) and *)
(* Thinking.                                                               *)
C38_Witness ==
    /\ run.pc = "failed"
    /\ run.on_event
    /\ run.complete_calls = 2
    /\ Len(run.events) >= 7
    /\ run.events[3].type = "ThinkingDone"
    /\ run.events[Len(run.events)].type = "Thinking"
    /\ LastIteration(run.events, Len(run.events)) = 2

(***************************************************************************)
(* Properties of LiveLocalLlmService                                       *)
(***************************************************************************)

\* The parameters do not pass the validation of configure.
Invalid(params) ==
    \/ params.modelId = None
    \/ params.backend \notin {None, Some("GGUF"), Some("MLX")}
    \/ params.backend = Some("MLX") /\ ~llm.mlx_available
    \/ params.modelId \notin { Some(m) : m \in ModelRegistry }

\* This step is a call of configure, up to the end of its validation.
Configures == llm'.configures = llm.configures + 1

\* This step is the rest of a call whose parameters are valid.
Loads == llm.call.pc = "loading" /\ llm'.call.pc = "returned"

\* This step is the end of a download task.
TaskEnds == llm'.tasks # llm.tasks /\ llm'.tasks \subseteq llm.tasks

(* C40: configure leaves the status as it is when the validation fails,    *)
(* and sets it to Loading before it saves the configuration: when the      *)
(* save fails it returns the error, the status is Loading and no download  *)
(* task was started.  When the save succeeds one download task is started  *)
(* and the status is Loading until a task ends with Ready or Error.  The   *)
(* status is never Loaded.                                                 *)
C40_ConfigureStatus ==
    [][/\ Configures =>
            /\ llm'.status = llm.status
            /\ llm'.tasks = llm.tasks
            /\ llm'.config = llm.config
            /\ IF Invalid(llm'.call.params)
               THEN llm'.call.pc = "returned" /\ llm'.call.result = "Err"
               ELSE llm'.call.pc = "loading"
       /\ Loads =>
            /\ llm'.status = LlmStatus("Loading", llm.call.params.modelId[1], "")
            /\ IF llm'.call.result = "Ok"
               THEN /\ Cardinality(llm'.tasks) = Cardinality(llm.tasks) + 1
                    /\ llm.tasks \subseteq llm'.tasks
                    /\ \A task \in llm'.tasks \ llm.tasks :
                          task.model_id = llm.call.params.modelId[1]
                    /\ llm'.config = Some(llm.call.params.modelId[1])
               ELSE /\ llm'.call.error = "failed to save config"
                    /\ llm'.tasks = llm.tasks
                    /\ llm'.config = llm.config
       /\ TaskEnds =>
            \E task \in llm.tasks \ llm'.tasks :
                /\ llm'.status.kind \in {"Ready", "Error"}
                /\ llm'.status.model_id = task.model_id
       /\ llm'.status # llm.status => (Loads \/ TaskEnds)
       /\ llm'.status.kind # "Loaded"
      ]_vars

(* The first configure has returned "failed to save config": the status is *)
(* Loading and no download task runs that could change it.                 *)
C40_Witness ==
    /\ llm.pc = "live"
    /\ llm.configures = 1
    /\ llm.call.pc = "returned"
    /\ llm.call.result = "Err"
    /\ llm.call.error = "failed to save config"
    /\ llm.status = LlmStatus("Loading", llm.call.params.modelId[1], "")
    /\ llm.tasks = {}

====
